---- MODULE Spec2Model ----
(***************************************************************************)
(* Verification development for viper-ide.                                 *)
(*                                                                         *)
(* Part 1: the backend lifecycle of server/src/BackendService.ts           *)
(* (BackendService: startTimeout, setReady, getServerPid, setStopping,     *)
(* setStopped, kill, isBackendCompatible, startStageProcess) together with *)
(* the notifications of Server (sendStateChangeNotification,               *)
(* sendBackendReadyNotification).  start() and stop() are abstract in      *)
(* BackendService; their concrete bodies are modelled from the design      *)
(* document (section 4.1).                                                 *)
(*                                                                         *)
(* Part 2: the state navigator of client/src/StateVisualizer.ts            *)
(* (storeNewStates, reset, completeReset, completeDecorationOptions,       *)
(* pushState, setState, focusOnState, markStateSelection,                  *)
(* markExecutionTrace, showStateSelection) with the answers of the server  *)
(* to ShowHeap and GetExecutionTrace.  HeapProvider and the client handler *)
(* of the HeapGraph request are not part of the sources at hand; they are  *)
(* modelled from their uses in StateVisualizer and from the design         *)
(* document (section 4.4).  Besides the navigator at large (SpecNav) there  *)
(* are the colouring of one step (SpecColor), one verification shown       *)
(* (SpecSession) and load-then-select (SpecLoadSelect).                    *)
(*                                                                         *)
(* Part 3: the registry of the files of the client (State: getFileState,   *)
(* getVisualizer, resetViperFiles, reset), SpecRegistry and SpecReset.     *)
(* Helper, ViperFileState and VerificationController are not part of the   *)
(* sources at hand; what the registry needs of them is modelled from their *)
(* uses in State and from the design document (section 4.2).               *)
(*                                                                         *)
(* Part 4: the edits of the document that StateVisualizer makes (special   *)
(* characters at the steps, timing information), SpecEdit.                 *)
(***************************************************************************)
EXTENDS Integers, Sequences, FiniteSets, TLC

(***************************************************************************)
(* Bounds of the model.                                                    *)
(***************************************************************************)
\* number of start generations explored (instanceCount is capped here)
MaxGen == 2

\* the value of Settings.settings.viperServerSettings.timeout when it is set
TimeoutMs == 100

(***************************************************************************)
(* Strings whose case matters are sequences of characters.                 *)
(***************************************************************************)
UpperChars == <<"A", "B", "C", "I", "L", "N", "O", "R", "S">>

LowerChars == <<"a", "b", "c", "i", "l", "n", "o", "r", "s">>

\* String.prototype.toLowerCase on one character
ToLowerChar(c) ==
    IF \E i \in 1..Len(UpperChars) : UpperChars[i] = c
    THEN LowerChars[CHOOSE i \in 1..Len(UpperChars) : UpperChars[i] = c]
    ELSE c

\* String.prototype.toLowerCase
toLowerCase(s) == [i \in 1..Len(s) |-> ToLowerChar(s[i])]

Silicon == <<"s", "i", "l", "i", "c", "o", "n">>

SiliconCap == <<"S", "i", "l", "i", "c", "o", "n">>

SiliconUpper == <<"S", "I", "L", "I", "C", "O", "N">>

Carbon == <<"c", "a", "r", "b", "o", "n">>

CarbonCap == <<"C", "a", "r", "b", "o", "n">>

\* the engine strings a BackendService instance or a Backend may declare
EngineKinds == {Silicon, SiliconCap, SiliconUpper, Carbon, CarbonCap}

(***************************************************************************)
(* Backend configurations (ViperProtocol.Backend: name, type, engine).     *)
(***************************************************************************)
BackendA == [name |-> "A", type |-> "silicon", engine |-> SiliconCap]

BackendB == [name |-> "B", type |-> "carbon", engine |-> Carbon]

\* the backends the lifecycle is started with: one whose engine matches the
\* engine of the running service up to case, one whose engine differs
Backends == {BackendA, BackendB}

\* the backends Server.backend may hold when a stage is started: every type
\* (silicon, carbon, other, an invalid one) with every engine string
StageBackends ==
    { [name |-> "S", type |-> t, engine |-> e] :
          t \in {"silicon", "carbon", "other", "custom"}, e \in EngineKinds }

\* Server.backend before any backend was assigned (undefined)
NoBackend == [name |-> "undefined", type |-> "undefined", engine |-> <<>>]

\* the stages startStageProcess is called with (Stage.mainMethod)
Stages == { [mainMethod |-> "viper.Main"], [mainMethod |-> "custom.Main"] }

Gens == 1..MaxGen

\* something the step wrote to the client, the log or a process
Ev(kind, name, num) == [kind |-> kind, name |-> name, num |-> num]

VARIABLES
    ready,                \* BackendService._ready
    instanceCount,        \* BackendService.instanceCount
    backendProcess,       \* BackendService.backendProcess (its pid; 0: unset)
    backendServerPid,     \* BackendService.backendServerPid (0: undefined)
    engine,               \* BackendService.engine
    serverBackend,        \* Server.backend
    startingOrRestarting, \* Server.startingOrRestarting
    timeoutSetting,       \* Settings.settings.viperServerSettings.timeout
    platform,             \* Settings.isWin / Settings.isLinux / neither
    state,                \* lifecycle state last entered
    timers,               \* generations whose setTimeout callback is pending
    readyPending,         \* readiness signals of spawned processes in flight
    pidLookups,           \* child_process.exec lookups of getServerPid in flight
    exitPending,          \* a process termination awaits its confirmation
    out,                  \* what the last step emitted, in order
    last,                 \* the last step: operation and generation
    readySince,           \* history: a readiness signal came since the last spawn
    stoppedWhileStarting, \* history: stop() was called while a start was pending
    refReady,             \* reference run: _ready
    refBackend,           \* reference run: Server.backend
    refPid                \* reference run: backendServerPid

\* the state navigator of one file (client side)
VARIABLES
    showStates,           \* StateVisualizer.showStates
    simpleMode,           \* configuration advancedFeatures.simpleMode
    compareStates,        \* configuration advancedFeatures.compareStates
    decorationOptions,    \* StateVisualizer.decorationOptions
    decorationOptionsByPosition, \* position key -> place in decorationOptions
    currentState,         \* StateVisualizer.currentState
    previousState,        \* StateVisualizer.previousState
    currentDepth,         \* StateVisualizer.currentDepth
    nextHeapIndex,        \* StateVisualizer.nextHeapIndex
    heapGraphs,           \* HeapProvider: the two heap graphs shown
    executionTrace,       \* StateVisualizer.executionTrace (cached)
    pending,              \* requests sent to the server, not yet answered
    selection             \* history: the last selections and what followed

\* the registry of the files (client: State) and the verifications running
VARIABLES
    viperFiles,           \* State.viperFiles: uri string -> ViperFileState
    created,              \* history: the ViperFileState objects constructed
    jobs                  \* uri string -> verification jobs in flight

\* the edits of the document of the file (client: StateVisualizer)
VARIABLES
    addingSpecialChars,      \* StateVisualizer.addingSpecialChars
    removingSpecialChars,    \* StateVisualizer.removingSpecialChars
    addingTimingInformation, \* StateVisualizer.addingTimingInformation
    removeSpecialCharacterCallbacks, \* the callbacks waiting, oldest first
    edits,                   \* the asynchronous edits in flight
    specialChars,            \* the document holds special characters
    editor,                  \* viperFile.editor (and its document) is there
    specialCharsShown,       \* viperFile.specialCharsShown
    onlySpecialCharsChanged, \* viperFile.onlySpecialCharsChanged
    registered,              \* history: the callbacks handed in so far
    invoked                  \* history: the callbacks invoked, in order

\* the fields of the backend service and of the server
service ==
    << ready, instanceCount, backendProcess, backendServerPid, engine,
       serverBackend, startingOrRestarting, timeoutSetting, platform, state,
       timers, readyPending, pidLookups, exitPending,
       readySince, stoppedWhileStarting, refReady, refBackend, refPid >>

\* the fields of the navigator
navigator ==
    << showStates, simpleMode, compareStates, decorationOptions,
       decorationOptionsByPosition, currentState, previousState, currentDepth,
       nextHeapIndex, heapGraphs, executionTrace, pending, selection >>

\* the registry and what it keeps track of
registry == << viperFiles, created, jobs >>

\* the edits of the document and what they keep track of
editing ==
    << addingSpecialChars, removingSpecialChars, addingTimingInformation,
       removeSpecialCharacterCallbacks, edits, specialChars, editor,
       specialCharsShown, onlySpecialCharsChanged, registered, invoked >>

vars == << service, navigator, registry, editing, out, last >>

config == << engine, timeoutSetting, platform >>

history == << readySince, stoppedWhileStarting >>

reference == << refReady, refBackend, refPid >>

(***************************************************************************)
(* The state navigator (client: StateVisualizer) of one file: its data.    *)
(***************************************************************************)
\* the longest step sequence the server sends
MaxSteps == 2

\* the most requests that await their answer at a time
MaxPending == 2

\* "no state": the value reset() gives the cursor
NoState == -1

\* a number field that was never assigned (undefined): not >= 0, equal to no
\* step index
Undefined == -2

\* the uri of the file the navigator belongs to
Uri == "file:///a.vpr"

\* the source positions steps start at (0-based line and character)
Positions ==
    { [line |-> 0, character |-> 0], [line |-> 1, character |-> 0] }

\* StateVisualizer.vscodePosToKey / posToKey: line + ":" + character
posToKey(line, character) == ToString(line) \o ":" \o ToString(character)

vscodePosToKey(pos) == posToKey(pos.line, pos.character)

\* StateVisualizer.collapsedSymbol (the glyph, written in ASCII)
collapsedSymbol == "o"

\* StateVisualizer.getLabel
getLabel(option) == "(" \o ToString(option.numberToDisplay) \o ")"

\* the decoration of step i as the server sends it: index, parent and depth
\* follow the place in the sequence, the label is shown
Decoration(i, pos, isErrorState) ==
    [ index |-> i,
      parent |-> IF i = 0 THEN 0 ELSE i - 1,
      depth |-> i,
      numberToDisplay |-> i,
      start |-> pos,
      isErrorState |-> isErrorState,
      contentText |-> "(" \o ToString(i) \o ")",
      color |-> IF isErrorState THEN "errorState" ELSE "interestingState" ]

\* the first position, at which the first step of every sequence starts
FirstPosition == [line |-> 0, character |-> 0]

\* the step sequences of StepsAsDecorationOptions: up to MaxSteps steps; the
\* first starts at the first position, the others at any position (two steps
\* may share one); the last step may be an error state
DecorationSequences ==
    UNION { { [k \in 1..n |-> Decoration(k - 1, p[k], e /\ k = n)] :
                  p \in { q \in [1..n -> Positions] :
                              n > 0 => q[1] = FirstPosition },
                  e \in BOOLEAN } :
            n \in 0..MaxSteps }

\* a heap graph of the file: the state it shows
HeapGraph(s, heap, fileUri) == [state |-> s, heap |-> heap, fileUri |-> fileUri]

\* no heap graph (undefined)
NoHeapGraph == HeapGraph(Undefined, FALSE, "undefined")

\* the execution trace the server answers for client state c: the path from
\* step 0 to step c, each entry with its showNumber flag
Trace(c, showNumber) ==
    [ k \in 1..(c + 1) |->
          [state |-> k - 1, showNumber |-> showNumber[k],
           color |-> "interestingState"] ]

\* StateVisualizer.executionTrace before the first answer (undefined)
NoTrace == [defined |-> FALSE, elements |-> <<>>]

\* a request in flight: ShowHeap or GetExecutionTrace
Request(kind, s, isHeapNeeded) ==
    [kind |-> kind, state |-> s, isHeapNeeded |-> isHeapNeeded]

\* history: no selection of a state is being followed
NoSelection == [index |-> NoState, former |-> NoState, repeated |-> FALSE]

\* the navigator after construction: the cursor, the steps and the trace are
\* unassigned (an unassigned step list behaves as an empty one in every
\* operation below)
NavigatorConstructed ==
    /\ decorationOptions = <<>>
    /\ decorationOptionsByPosition = <<>>
    /\ currentState = Undefined
    /\ previousState = Undefined
    /\ currentDepth = Undefined
    /\ nextHeapIndex = 0
    /\ heapGraphs = << NoHeapGraph, NoHeapGraph >>
    /\ executionTrace = NoTrace
    /\ pending = <<>>
    /\ selection = NoSelection

(***************************************************************************)
(* The edits of the document (client: StateVisualizer): their data.        *)
(***************************************************************************)
\* the most edits in flight at a time
MaxEdits == 2

\* the most callbacks handed to the operations
MaxCallbacks == 3

\* an edit in flight: what it is for (add, remove, timing, closed), the
\* promise it waits for (apply, save, read) and the callback given with it
Edit(kind, stage, callback) ==
    [kind |-> kind, stage |-> stage, callback |-> callback]

\* an edit without a callback of its own
NoCallback == 0

\* one call of a callback: which one, and removingSpecialChars at the call
Call(callback, removing) == [callback |-> callback, removing |-> removing]

\* preferences.showProgress of the configuration
showProgress == TRUE

\* StateVisualizer as constructed: no edit, no callback
EditingConstructed ==
    /\ addingSpecialChars = FALSE
    /\ removingSpecialChars = FALSE
    /\ addingTimingInformation = FALSE
    /\ removeSpecialCharacterCallbacks = <<>>
    /\ edits = <<>>
    /\ specialChars = FALSE
    /\ editor = TRUE
    /\ specialCharsShown = FALSE
    /\ onlySpecialCharsChanged = FALSE
    /\ registered = 0
    /\ invoked = <<>>

(***************************************************************************)
(* The registry of the files (client: State): its data.                    *)
(***************************************************************************)
\* the most ViperFileState objects constructed
MaxRecords == 3

\* the most verification jobs of one file in flight
MaxJobs == 2

\* the endings of Viper source files
viperFileEndings == {".vpr", ".sil"}

\* the files of the workspace: two Viper source files and a text file
Files ==
    { [name |-> "a", ending |-> ".vpr"], [name |-> "b", ending |-> ".sil"],
      [name |-> "notes", ending |-> ".txt"] }

\* the uris getFileState is called with (Uri | string | vscode.Uri): a file
\* named by a string or by a Uri object, or no uri (null, undefined, "")
Uris ==
    { [form |-> f, name |-> file.name, ending |-> file.ending] :
          f \in {"string", "object"}, file \in Files }
    \cup { [form |-> "none", name |-> "", ending |-> ""] }

\* Helper.uriToString: both forms of a uri give the same string
uriToString(uri) == "file:///" \o uri.name \o uri.ending

\* Helper.uriToObject: the Uri object of the file
uriToObject(uri) == [uri EXCEPT !.form = "object"]

\* Helper.isViperSourceFile(uriString): the string ends with a Viper ending
isViperSourceFile(uriString) ==
    \E file \in Files :
        /\ file.ending \in viperFileEndings
        /\ uriString = "file:///" \o file.name \o file.ending

\* the uri strings of the Viper source files
ViperUriStrings ==
    { k \in { uriToString(uri) : uri \in Uris } : isViperSourceFile(k) }

\* no ViperFileState (null); the objects constructed are numbered from 1
NoRecord == 0

\* new StateVisualizer(): the fields as declared
NewStateVisualizer ==
    [ decorationOptions |-> <<>>,
      decorationOptionsByPosition |-> <<>>,
      currentState |-> Undefined,
      previousState |-> Undefined,
      currentDepth |-> Undefined,
      nextHeapIndex |-> 0,
      heapGraphs |-> << NoHeapGraph, NoHeapGraph >>,
      executionTrace |-> NoTrace,
      pending |-> <<>>,
      out |-> <<>>,
      threw |-> FALSE ]

\* new ViperFileState(uriObject), the id-th object constructed
ViperFileState(uriObject, id) ==
    [ id |-> id,
      uri |-> uriObject,
      changed |-> TRUE,
      verified |-> FALSE,
      verifying |-> FALSE,
      decorationsShown |-> FALSE,
      stateVisualizer |-> NewStateVisualizer ]

\* State as loaded: no file, nothing verified
RegistryConstructed ==
    /\ viperFiles = <<>>
    /\ created = 0
    /\ jobs = [k \in ViperUriStrings |-> 0]

Init ==
    /\ ready = FALSE
    /\ instanceCount = 0
    /\ backendProcess = 0
    /\ backendServerPid = 0
    /\ engine = Silicon
    /\ serverBackend = NoBackend
    /\ startingOrRestarting = FALSE
    /\ timeoutSetting \in {0, TimeoutMs}
    /\ platform \in {"linux", "other"}
    /\ state = "Idle"
    /\ timers = {}
    /\ readyPending = {}
    /\ pidLookups = {}
    /\ exitPending = FALSE
    /\ out = <<>>
    /\ last = [op |-> "init", gen |-> 0]
    /\ readySince = FALSE
    /\ stoppedWhileStarting = FALSE
    /\ refReady = FALSE
    /\ refBackend = NoBackend
    /\ refPid = 0
    /\ showStates = FALSE
    /\ simpleMode = FALSE
    /\ compareStates = FALSE
    /\ NavigatorConstructed
    /\ RegistryConstructed
    /\ EditingConstructed

(***************************************************************************)
(* BackendService: the synchronous pieces.                                 *)
(***************************************************************************)
\* BackendService.isReady
isReady == ready

\* BackendService.isBackendCompatible: the parameter is not read, the
\* comparison is between Server.backend.engine and this.engine
isBackendCompatible(backend) ==
    toLowerCase(serverBackend.engine) # toLowerCase(engine)

\* the pid the process spawned by generation g gets
ProcessPid(g) == g

\* the pid of the java child that wmic / pgrep report for a parent pid
ChildPid(parent) == parent + MaxGen + 1

\* the callback's condition without the generation check
TimeoutExpiredAnyGeneration(g) == ~isReady

\* the condition of the setTimeout callback armed by startTimeout(g)
TimeoutExpired(g) == ~isReady /\ instanceCount = g

\* BackendService.setStopping
setStopping ==
    /\ ready' = FALSE
    /\ startingOrRestarting' = FALSE
    /\ state' = "Stopping"

\* BackendService.setStopped
setStopped ==
    /\ ready' = FALSE
    /\ startingOrRestarting' = FALSE
    /\ state' = "Stopped"

\* notifications that do not carry their argument
StateChangeUnnamed(newState) == Ev("StateChange", "", 0)

BackendReadyUnnamed(name) == Ev("BackendReady", "", 0)

\* Server.sendStateChangeNotification({ newState })
StateChange(newState) == Ev("StateChange", newState, 0)

\* Server.sendBackendReadyNotification({ name, ... })
BackendReady(name) == Ev("BackendReady", name, 0)

\* a stop() that does not look at the state it is called in
stopUnconditionally(emitted) ==
    /\ setStopping
    /\ exitPending' = TRUE
    /\ out' = emitted \o << Ev("StateChange", "Stopping", 0) >>
    /\ stoppedWhileStarting' = (stoppedWhileStarting \/ state = "Starting")
    /\ refReady' = FALSE

\* stop(): a stopped lifecycle is left alone; otherwise the current process
\* handle is terminated whatever the state, the lifecycle is Stopping, and the
\* termination is confirmed later (ExitConfirmed).  `emitted` is what the
\* caller has written before the call.
stop(emitted) ==
    IF state = "Stopped"
    THEN /\ out' = emitted
         /\ UNCHANGED << ready, startingOrRestarting, state, exitPending,
                         stoppedWhileStarting, refReady >>
    ELSE /\ setStopping
         /\ exitPending' = TRUE
         /\ out' = emitted \o << StateChange("Stopping") >>
                     \o (IF backendProcess # 0
                         THEN << Ev("terminate", "process", backendProcess) >>
                         ELSE << >>)
         /\ stoppedWhileStarting' = (stoppedWhileStarting \/ state = "Starting")
         /\ refReady' = FALSE

\* a kill() that terminates nothing
killNothing(emitted) ==
    /\ out' = emitted
    /\ UNCHANGED << ready, startingOrRestarting, state, exitPending,
                    stoppedWhileStarting, refReady >>

\* BackendService.kill
kill(emitted) == stop(emitted)

\* BackendService.startTimeout(instanceCount): arms the timer when the
\* timeout setting is set
startTimeout(g) ==
    timers' = IF timeoutSetting # 0 THEN timers \cup {g} ELSE timers

(***************************************************************************)
(* Operations.                                                             *)
(***************************************************************************)
\* start(backend)
Start(b) ==
    LET compatible == toLowerCase(b.engine) = toLowerCase(engine)
        g == instanceCount + 1
    IN  /\ last' = [op |-> "start", gen |-> instanceCount]
        /\ IF state = "Ready" /\ compatible
           THEN \* already ready for a compatible engine
                /\ out' = <<>>
                /\ UNCHANGED << ready, instanceCount, backendProcess,
                                startingOrRestarting, state, timers,
                                readyPending, history >>
           ELSE IF state \in {"Starting", "Ready", "Stopping"} /\ ~compatible
           THEN \* an incompatible backend is active
                /\ out' = << Ev("error", "IncompatibleEngine", 0) >>
                /\ UNCHANGED << ready, instanceCount, backendProcess,
                                startingOrRestarting, state, timers,
                                readyPending, history >>
           ELSE /\ state \in {"Idle", "Stopped", "Starting"}
                /\ instanceCount < MaxGen
                /\ state' = "Starting"
                /\ instanceCount' = g
                /\ backendProcess' = ProcessPid(g)
                /\ startingOrRestarting' = TRUE
                /\ readyPending' = readyPending \cup {[gen |-> g, backend |-> b]}
                /\ startTimeout(g)
                /\ stoppedWhileStarting' = FALSE
                /\ readySince' = FALSE
                /\ out' = << Ev("spawn", b.name, ProcessPid(g)) >>
                /\ UNCHANGED ready
        /\ UNCHANGED << backendServerPid, serverBackend, pidLookups,
                        exitPending, config, reference >>

\* stop()
Stop ==
    /\ stop(<< >>)
    /\ last' = [op |-> "stop", gen |-> instanceCount]
    /\ UNCHANGED << instanceCount, backendProcess, backendServerPid,
                    serverBackend, timers, readyPending, pidLookups, readySince,
                    config, refBackend, refPid >>

\* the termination of the process killed by stop() is confirmed
ExitConfirmed ==
    /\ exitPending
    /\ setStopped
    /\ exitPending' = FALSE
    /\ backendProcess' = 0
    /\ out' = << StateChange("Stopped") >>
    /\ last' = [op |-> "exit", gen |-> instanceCount]
    /\ refReady' = FALSE
    /\ UNCHANGED << instanceCount, backendServerPid, serverBackend, timers,
                    readyPending, pidLookups, history, config, refBackend,
                    refPid >>

\* the callback of the timer armed by startTimeout(g) runs
TimerFire(g) ==
    /\ g \in timers
    /\ timers' = timers \ {g}
    /\ last' = [op |-> "timeout", gen |-> g]
    /\ IF TimeoutExpired(g)
       THEN kill(<< Ev("hint", "startup timed out", timeoutSetting) >>)
       ELSE /\ out' = <<>>
            /\ UNCHANGED << ready, startingOrRestarting, state, exitPending,
                            stoppedWhileStarting, refReady >>
    /\ UNCHANGED << instanceCount, backendProcess, backendServerPid,
                    serverBackend, readyPending, pidLookups, readySince, config,
                    refBackend, refPid >>

\* the process spawned by generation r.gen signals readiness:
\* BackendService.setReady(backend), with the start of getServerPid()
ReadySignal(r) ==
    /\ r \in readyPending
    /\ readyPending' = readyPending \ {r}
    /\ last' = [op |-> "ready", gen |-> r.gen]
    /\ ready' = TRUE
    /\ serverBackend' = r.backend
    /\ startingOrRestarting' = FALSE
    /\ state' = "Ready"
    /\ readySince' = TRUE
    /\ IF backendProcess = 0
       THEN \* Promise.reject(...), caught: Log.error(e)
            /\ out' = << BackendReady(r.backend.name),
                         Ev("Log.error", "pid", 0) >>
            /\ UNCHANGED << backendServerPid, pidLookups, refPid >>
       ELSE IF platform = "other"
       THEN \* resolve(this.backendProcess.pid)
            /\ out' = << BackendReady(r.backend.name) >>
            /\ backendServerPid' = backendProcess
            /\ refPid' = IF r.gen = instanceCount THEN backendProcess ELSE refPid
            /\ UNCHANGED pidLookups
       ELSE \* child_process.exec(command, ...) is in flight
            /\ out' = << BackendReady(r.backend.name) >>
            /\ pidLookups' = pidLookups \cup
                   {[gen |-> instanceCount, parent |-> backendProcess,
                     current |-> (r.gen = instanceCount)]}
            /\ UNCHANGED << backendServerPid, refPid >>
    /\ refReady' = IF r.gen = instanceCount THEN TRUE ELSE refReady
    /\ refBackend' = IF r.gen = instanceCount THEN r.backend ELSE refBackend
    /\ UNCHANGED << instanceCount, backendProcess, timers, exitPending,
                    stoppedWhileStarting, config >>

\* an exec callback whose failure forgets the PID known so far
PidResolvedForgetting(l, found) ==
    /\ l \in pidLookups
    /\ pidLookups' = pidLookups \ {l}
    /\ last' = [op |-> "pid", gen |-> l.gen]
    /\ IF found
       THEN /\ backendServerPid' = ChildPid(l.parent)
            /\ refPid' = IF l.current /\ l.gen = instanceCount
                         THEN ChildPid(l.parent)
                         ELSE refPid
            /\ out' = <<>>
       ELSE /\ out' = << Ev("Log.error", "pid", 0) >>
            /\ backendServerPid' = 0
            /\ UNCHANGED refPid
    /\ UNCHANGED << ready, instanceCount, backendProcess, serverBackend,
                    startingOrRestarting, state, timers, readyPending,
                    exitPending, history, config, refReady, refBackend >>

\* the exec callback of getServerPid runs: stdout holds a number or not
PidResolved(l, found) ==
    /\ l \in pidLookups
    /\ pidLookups' = pidLookups \ {l}
    /\ last' = [op |-> "pid", gen |-> l.gen]
    /\ IF found
       THEN /\ backendServerPid' = ChildPid(l.parent)
            /\ refPid' = IF l.current /\ l.gen = instanceCount
                         THEN ChildPid(l.parent)
                         ELSE refPid
            /\ out' = <<>>
       ELSE /\ out' = << Ev("Log.error", "pid", 0) >>
            /\ UNCHANGED << backendServerPid, refPid >>
    /\ UNCHANGED << ready, instanceCount, backendProcess, serverBackend,
                    startingOrRestarting, state, timers, readyPending,
                    exitPending, history, config, refReady, refBackend >>

\* BackendService.getViperBackendClassName; "throws" stands for the Error
getViperBackendClassName(stage) ==
    CASE serverBackend.type = "silicon" -> "silicon"
      [] serverBackend.type = "carbon" -> "carbon"
      [] serverBackend.type = "other" -> stage.mainMethod
      [] OTHER -> "throws"

\* BackendService.startStageProcess(fileToVerify, stage, ...)
StartStageProcess(stage) ==
    /\ last' = [op |-> "stage", gen |-> instanceCount]
    /\ IF serverBackend = NoBackend
       THEN \* TypeError reading Server.backend.engine, caught
            out' = << Ev("Log.error", "Error starting stage process", 0) >>
       ELSE LET mismatch ==
                    IF isBackendCompatible(serverBackend)
                    THEN << Ev("Log.error", "engine does not correspond", 0) >>
                    ELSE << >>
                cls == getViperBackendClassName(stage)
            IN  IF cls = "throws"
                THEN out' = mismatch \o
                         << Ev("Log.error", "Error starting stage process", 0) >>
                ELSE out' = mismatch \o << Ev("startVerifyProcess", cls, 0) >>
    /\ UNCHANGED << ready, instanceCount, backendProcess, backendServerPid,
                    serverBackend, startingOrRestarting, state, timers,
                    readyPending, pidLookups, exitPending, history, config,
                    reference >>

Next ==
    \/ \E b \in Backends : Start(b) /\ UNCHANGED << navigator, registry, editing >>
    \/ Stop /\ UNCHANGED << navigator, registry, editing >>
    \/ ExitConfirmed /\ UNCHANGED << navigator, registry, editing >>
    \/ \E g \in Gens : TimerFire(g) /\ UNCHANGED << navigator, registry, editing >>
    \/ \E r \in readyPending : ReadySignal(r) /\ UNCHANGED << navigator, registry, editing >>
    \/ \E l \in pidLookups : \E found \in BOOLEAN :
           PidResolved(l, found) /\ UNCHANGED << navigator, registry, editing >>

Spec == Init /\ [][Next]_vars

\* the confirmation of a termination is eventually delivered
FairSpec == Spec /\ WF_vars(ExitConfirmed /\ UNCHANGED << navigator, registry, editing >>)

(***************************************************************************)
(* Starting a stage: startStageProcess under every engine of the running   *)
(* service and every backend Server.backend may hold, ready or not.        *)
(***************************************************************************)
InitStage ==
    /\ engine \in EngineKinds
    /\ serverBackend \in StageBackends \cup {NoBackend}
    /\ ready \in BOOLEAN
    /\ ready => serverBackend # NoBackend
    /\ state = IF ready THEN "Ready" ELSE "Idle"
    /\ instanceCount = 0
    /\ backendProcess = 0
    /\ backendServerPid = 0
    /\ startingOrRestarting = FALSE
    /\ timeoutSetting = TimeoutMs
    /\ platform = "linux"
    /\ timers = {}
    /\ readyPending = {}
    /\ pidLookups = {}
    /\ exitPending = FALSE
    /\ out = <<>>
    /\ last = [op |-> "init", gen |-> 0]
    /\ readySince = ready
    /\ stoppedWhileStarting = FALSE
    /\ refReady = ready
    /\ refBackend = serverBackend
    /\ refPid = 0
    /\ showStates = FALSE
    /\ simpleMode = FALSE
    /\ compareStates = FALSE
    /\ NavigatorConstructed
    /\ RegistryConstructed
    /\ EditingConstructed

NextStage ==
    \E stage \in Stages : StartStageProcess(stage) /\ UNCHANGED << navigator, registry, editing >>

SpecStage == InitStage /\ [][NextStage]_vars

(***************************************************************************)
(* The state navigator: StateVisualizer's operations.  An operation takes  *)
(* the navigator n (the fields, what was emitted so far, whether a         *)
(* TypeError was thrown) and gives the navigator it leaves.                *)
(***************************************************************************)
\* the navigator as the step finds it
Navigator ==
    [ decorationOptions |-> decorationOptions,
      decorationOptionsByPosition |-> decorationOptionsByPosition,
      currentState |-> currentState,
      previousState |-> previousState,
      currentDepth |-> currentDepth,
      nextHeapIndex |-> nextHeapIndex,
      heapGraphs |-> heapGraphs,
      executionTrace |-> executionTrace,
      pending |-> pending,
      out |-> <<>>,
      threw |-> FALSE ]

\* Log.error(message)
LogError(n, message) ==
    [n EXCEPT !.out = Append(@, Ev("Log.error", message, 0))]

\* a TypeError leaves the operation: what was assigned so far stays
Throw(n) ==
    [n EXCEPT !.out = Append(@, Ev("TypeError", "undefined", 0)),
              !.threw = TRUE]

\* HeapProvider.resetState
resetState(n) ==
    [n EXCEPT !.heapGraphs = << NoHeapGraph, NoHeapGraph >>]

\* HeapProvider.setState(heapGraph, index)
providerSetState(n, heapGraph, index) ==
    [n EXCEPT !.heapGraphs[index + 1] = heapGraph]

\* HeapProvider.getCurrentHeap: the graph stored last
getCurrentHeap(n) == n.heapGraphs[(1 - n.nextHeapIndex) + 1]

\* HeapProvider.getPreviousHeap: the graph the next one replaces
getPreviousHeap(n) == n.heapGraphs[n.nextHeapIndex + 1]

\* HeapProvider.nofHeapGraphs: the length of the array of graphs
nofHeapGraphs(n) ==
    IF n.heapGraphs[2] # NoHeapGraph THEN 2
    ELSE IF n.heapGraphs[1] # NoHeapGraph THEN 1
    ELSE 0

\* StateVisualizer.reset
reset(n) ==
    [resetState([n EXCEPT !.nextHeapIndex = 0])
        EXCEPT !.currentState = NoState, !.previousState = NoState]

\* StateVisualizer.completeReset
completeReset(n) ==
    [reset(n) EXCEPT !.decorationOptions = <<>>,
                     !.decorationOptionsByPosition = <<>>]

\* Map.set(key, place)
MapSet(map, key, place) ==
    [k \in DOMAIN map \cup {key} |-> IF k = key THEN place ELSE map[k]]

\* StateVisualizer.completeDecorationOptions, from place i on
RECURSIVE completeDecorationOptionsFrom(_, _)
completeDecorationOptionsFrom(n, i) ==
    IF i > Len(n.decorationOptions)
    THEN n
    ELSE LET key == vscodePosToKey(n.decorationOptions[i].start)
             logged == IF key \in DOMAIN n.decorationOptionsByPosition
                       THEN LogError(n, "multiple decoration options")
                       ELSE n
         IN  completeDecorationOptionsFrom(
                 [logged EXCEPT !.decorationOptionsByPosition =
                                    MapSet(@, key, i)],
                 i + 1)

\* StateVisualizer.completeDecorationOptions
completeDecorationOptions(n) == completeDecorationOptionsFrom(n, 1)

\* StateVisualizer.storeNewStates(decorations)
storeNewStates(n, decorations) ==
    completeDecorationOptions(
        [n EXCEPT !.previousState = NoState,
                  !.decorationOptions = decorations,
                  !.decorationOptionsByPosition = <<>>])

\* expand() showing the collapsed glyph instead of the number
expandAsGlyph(option) == [option EXCEPT !.contentText = collapsedSymbol]

\* StateVisualizer.expand / collapse / hide
expand(option) == [option EXCEPT !.contentText = getLabel(option)]

collapse(option) == [option EXCEPT !.contentText = collapsedSymbol]

hide(option) == [option EXCEPT !.contentText = ""]

\* color() without the precedence: the colour asked for is always painted
colorAlways(option, newColor) == [option EXCEPT !.color = newColor]

\* color() letting ErrorState replace Previous
colorErrorOverPrevious(option, newColor) ==
    IF \/ newColor \in {"uninterestingState", "currentState"}
       \/ (option.color # "currentState" /\ newColor = "previousState")
       \/ (option.color # "currentState" /\ newColor = "errorState")
       \/ (option.color \notin {"currentState", "previousState", "errorState"}
             /\ newColor = "interestingState")
    THEN [option EXCEPT !.color = newColor]
    ELSE option

\* StateVisualizer.color(option, color, darkGraphs): colours are named after
\* the role StateColors gives them
color(option, newColor) ==
    LET isOldCurrentState == option.color = "currentState"
        isOldPreviousState == option.color = "previousState"
        isOldErrorState == option.color = "errorState"
        isNewCurrentState == newColor = "currentState"
        isNewPreviousState == newColor = "previousState"
        isNewUninterestingState == newColor = "uninterestingState"
        isNewInterestingState == newColor = "interestingState"
        isNewErrorState == newColor = "errorState"
    IN  IF \/ isNewUninterestingState
           \/ isNewCurrentState
           \/ (~isOldCurrentState /\ isNewPreviousState)
           \/ (~isOldCurrentState /\ ~isOldPreviousState /\ isNewErrorState)
           \/ (~isOldCurrentState /\ ~isOldPreviousState /\ ~isOldErrorState
                 /\ isNewInterestingState)
        THEN [option EXCEPT !.color = newColor]
        ELSE option

\* StateVisualizer.markExecutionTrace, from element i on
RECURSIVE markExecutionTraceFrom(_, _)
markExecutionTraceFrom(n, i) ==
    IF i > Len(n.executionTrace.elements)
    THEN n
    ELSE LET element == n.executionTrace.elements[i]
         IN  IF element.state # n.previousState
                  /\ element.state # n.currentState
             THEN IF element.state + 1 \in DOMAIN n.decorationOptions
                  THEN LET option == n.decorationOptions[element.state + 1]
                           shown == IF element.showNumber
                                    THEN expand(option)
                                    ELSE collapse(option)
                       IN  markExecutionTraceFrom(
                               [n EXCEPT !.decorationOptions[element.state + 1]
                                             = color(shown, element.color)],
                               i + 1)
                  ELSE \* option is undefined
                       Throw(n)
             ELSE markExecutionTraceFrom(n, i + 1)

\* StateVisualizer.markExecutionTrace
markExecutionTrace(n) == markExecutionTraceFrom(n, 1)

\* the loop body with the error state tested before the cursor
markOptionErrorFirst(option, n) ==
    LET plain == color(hide(option), "uninterestingState")
    IN  IF option.isErrorState
        THEN color(collapse(plain), "errorState")
        ELSE IF option.index = n.currentState
        THEN color(expand(plain), "currentState")
        ELSE IF option.index = n.previousState
        THEN color(expand(plain), "previousState")
        ELSE plain

\* the loop body of markStateSelection for one option
markOption(option, n) ==
    LET plain == color(hide(option), "uninterestingState")
    IN  IF option.index = n.currentState
        THEN color(expand(plain), "currentState")
        ELSE IF option.index = n.previousState
        THEN color(expand(plain), "previousState")
        ELSE IF option.isErrorState
        THEN color(collapse(plain), "errorState")
        ELSE plain

\* client.sendRequest(Commands.GetExecutionTrace, { clientState })
requestExecutionTrace(n) ==
    [n EXCEPT !.pending = Append(@, Request("trace", n.currentState, FALSE)),
              !.out = Append(@, Ev("GetExecutionTrace", "", n.currentState))]

\* markStateSelection taking the depth of the parent of the selected step
markStateSelectionParentDepth(n) ==
    IF /\ showStates
       /\ n.currentState >= 0
       /\ n.currentState < Len(n.decorationOptions)
    THEN LET selectedOption == n.decorationOptions[n.currentState + 1]
             isCurrentStateErrorState ==
                 \E k \in DOMAIN n.decorationOptions :
                     /\ n.decorationOptions[k].index = n.currentState
                     /\ n.decorationOptions[k].isErrorState
             marked ==
                 [n EXCEPT !.currentDepth =
                               n.decorationOptions[selectedOption.parent + 1]
                                   .depth,
                           !.decorationOptions =
                               [k \in DOMAIN @ |-> markOption(@[k], n)]]
         IN  IF \/ ~n.executionTrace.defined
                \/ ~simpleMode
                \/ (simpleMode /\ isCurrentStateErrorState)
             THEN requestExecutionTrace(marked)
             ELSE markExecutionTrace(marked)
    ELSE n

\* markStateSelection requesting the trace whenever the display is not in
\* simple mode or the current state is an error state, a trace cached or not
markStateSelectionTrustingCache(n) ==
    IF /\ showStates
       /\ n.currentState >= 0
       /\ n.currentState < Len(n.decorationOptions)
    THEN LET selectedOption == n.decorationOptions[n.currentState + 1]
             isCurrentStateErrorState ==
                 \E k \in DOMAIN n.decorationOptions :
                     /\ n.decorationOptions[k].index = n.currentState
                     /\ n.decorationOptions[k].isErrorState
             marked ==
                 [n EXCEPT !.currentDepth = selectedOption.depth,
                           !.decorationOptions =
                               [k \in DOMAIN @ |-> markOption(@[k], n)]]
         IN  IF \/ ~simpleMode
                \/ (simpleMode /\ isCurrentStateErrorState)
             THEN requestExecutionTrace(marked)
             ELSE markExecutionTrace(marked)
    ELSE n

\* StateVisualizer.markStateSelection
markStateSelection(n) ==
    IF /\ showStates
       /\ n.currentState >= 0
       /\ n.currentState < Len(n.decorationOptions)
    THEN LET selectedOption == n.decorationOptions[n.currentState + 1]
             isCurrentStateErrorState ==
                 \E k \in DOMAIN n.decorationOptions :
                     /\ n.decorationOptions[k].index = n.currentState
                     /\ n.decorationOptions[k].isErrorState
             marked ==
                 [n EXCEPT !.currentDepth = selectedOption.depth,
                           !.decorationOptions =
                               [k \in DOMAIN @ |-> markOption(@[k], n)]]
         IN  IF \/ ~n.executionTrace.defined
                \/ ~simpleMode
                \/ (simpleMode /\ isCurrentStateErrorState)
             THEN requestExecutionTrace(marked)
             ELSE markExecutionTrace(marked)
    ELSE n

\* StateVisualizer.requestState(state, isHeapNeeded)
requestState(n, s, isHeapNeeded) ==
    [n EXCEPT !.pending = Append(@, Request("heap", s, isHeapNeeded)),
              !.out = Append(@, Ev("ShowHeap",
                                   IF isHeapNeeded THEN "heap" ELSE "no heap",
                                   s))]

\* StateVisualizer.createAndShowHeap(heapGraph, index)
createAndShowHeap(n, heapGraph, index) ==
    IF ~heapGraph.heap
    THEN LogError(n, "Error creating heap description: no heap")
    ELSE IF heapGraph.fileUri # Uri
    THEN LogError(n, "Uri mismatch")
    ELSE [providerSetState(n, heapGraph, index)
             EXCEPT !.out = Append(@, Ev("showHeapGraph", "", heapGraph.state))]

\* the assignment both setState and pushState make to the cursor
moveCursor(n, heapGraph) ==
    IF n.currentState # heapGraph.state
    THEN [n EXCEPT !.previousState = n.currentState,
                   !.currentState = heapGraph.state]
    ELSE n

\* StateVisualizer.setState(heapGraph)
setState(n, heapGraph) ==
    LET currentIndex == IF compareStates
                        THEN (IF nofHeapGraphs(n) > 0 THEN 1 ELSE 0)
                        ELSE 0
        shown == [createAndShowHeap(moveCursor(n, heapGraph), heapGraph,
                                    currentIndex)
                     EXCEPT !.nextHeapIndex = 1]
        currentHeap == getCurrentHeap(shown)
        previousHeap == getPreviousHeap(shown)
        settled == [shown EXCEPT !.previousState =
                                     IF previousHeap # NoHeapGraph
                                     THEN previousHeap.state
                                     ELSE NoState]
    IN  IF currentHeap = NoHeapGraph
        THEN \* currentHeap.methodName of undefined
             Throw(settled)
        ELSE markStateSelection(settled)

\* StateVisualizer.pushState(heapGraph)
pushState(n, heapGraph) ==
    IF compareStates
    THEN LET currHeapIndex == n.nextHeapIndex
             flipped == [n EXCEPT !.nextHeapIndex = 1 - n.nextHeapIndex]
         IN  markStateSelection(
                 moveCursor(createAndShowHeap(flipped, heapGraph,
                                              currHeapIndex),
                            heapGraph))
    ELSE setState(n, heapGraph)

\* StateVisualizer.focusOnState(heapGraph)
focusOnState(n, heapGraph) ==
    LET cleared == [reset(n) EXCEPT !.nextHeapIndex = 1]
    IN  IF heapGraph = NoHeapGraph
        THEN \* heapGraph.heap of undefined, in createAndShowHeap
             Throw(cleared)
        ELSE LET focused == [createAndShowHeap(cleared, heapGraph, 0)
                                EXCEPT !.currentState = heapGraph.state,
                                       !.previousState = NoState]
             IN  requestState(markStateSelection(focused), heapGraph.state,
                              FALSE)

\* showStateSelection reaches a state at pos: the decoration found there is
\* shown (in simple mode: has a label)
SelectableAt(pos) ==
    /\ showStates
    /\ posToKey(pos.line, pos.character) \in DOMAIN decorationOptionsByPosition
    /\ simpleMode =>
           decorationOptions[decorationOptionsByPosition[
               posToKey(pos.line, pos.character)]].contentText # ""

\* the state showStateSelection finds at pos
SelectedState(pos) ==
    decorationOptions[decorationOptionsByPosition[
        posToKey(pos.line, pos.character)]].index

\* StateVisualizer.showStateSelection(pos)
showStateSelection(n, pos) ==
    IF ~SelectableAt(pos)
    THEN n
    ELSE LET selectedState == SelectedState(pos)
         IN  IF simpleMode
             THEN IF \/ n.previousState = selectedState
                     \/ n.currentState = selectedState
                  THEN focusOnState(n, getCurrentHeap(n))
                  ELSE requestState(n, selectedState, TRUE)
             ELSE IF n.currentState # selectedState
                  THEN requestState(
                           [n EXCEPT !.previousState = n.currentState,
                                     !.currentState = selectedState],
                           selectedState, TRUE)
                  ELSE focusOnState(n, getCurrentHeap(n))

(***************************************************************************)
(* The state navigator: the events of the client.                          *)
(***************************************************************************)
\* the step leaves the navigator as n, provided the requests it sent fit
Leave(n, op, num) ==
    /\ Len(n.pending) <= MaxPending
    /\ decorationOptions' = n.decorationOptions
    /\ decorationOptionsByPosition' = n.decorationOptionsByPosition
    /\ currentState' = n.currentState
    /\ previousState' = n.previousState
    /\ currentDepth' = n.currentDepth
    /\ nextHeapIndex' = n.nextHeapIndex
    /\ heapGraphs' = n.heapGraphs
    /\ executionTrace' = n.executionTrace
    /\ pending' = n.pending
    /\ out' = n.out
    /\ last' = [op |-> op, gen |-> num]
    /\ UNCHANGED << service, registry, editing, showStates, simpleMode,
                    compareStates >>

\* the StepsAsDecorationOptions notification of a finished verification
StoreNewStates(decorations) ==
    /\ Leave(storeNewStates(Navigator, decorations), "store", Len(decorations))
    /\ selection' = NoSelection

\* StateVisualizer.reset, called on its own
Reset ==
    /\ Leave(reset(Navigator), "reset", 0)
    /\ selection' = NoSelection

\* State.resetViperFiles: completeReset of the navigator of the file
CompleteReset ==
    /\ Leave(completeReset(Navigator), "completeReset", 0)
    /\ selection' = NoSelection

\* the editor's selection moved to pos
ShowStateSelection(pos) ==
    /\ Leave(showStateSelection(Navigator, pos), "select",
             IF SelectableAt(pos) THEN SelectedState(pos) ELSE NoState)
    /\ selection' =
           IF ~SelectableAt(pos)
           THEN selection
           ELSE IF selection.index = SelectedState(pos)
           THEN [selection EXCEPT !.repeated = TRUE]
           ELSE [index |-> SelectedState(pos), former |-> currentState,
                 repeated |-> FALSE]

\* the server answers the oldest request, a ShowHeap, with the heap graph of
\* the state asked for (Server.showHeap), which holds a heap when one was
\* asked for; the client hands it to setState (simple mode) or pushState
\* (advanced mode)
HeapResponse ==
    /\ pending # <<>>
    /\ Head(pending).kind = "heap"
    /\ LET n == [Navigator EXCEPT !.pending = Tail(pending)]
           heapGraph == HeapGraph(Head(pending).state,
                                  Head(pending).isHeapNeeded, Uri)
       IN  Leave(IF simpleMode
                 THEN setState(n, heapGraph)
                 ELSE pushState(n, heapGraph),
                 "heap", heapGraph.state)
    /\ UNCHANGED selection

\* the server answers the oldest request, a GetExecutionTrace: the then
\* callback of markStateSelection
TraceResponse(showNumber) ==
    /\ pending # <<>>
    /\ Head(pending).kind = "trace"
    /\ DOMAIN showNumber = 1..(Head(pending).state + 1)
    /\ LET n == [Navigator EXCEPT
                     !.pending = Tail(pending),
                     !.executionTrace =
                         [defined |-> TRUE,
                          elements |-> Trace(Head(pending).state, showNumber)]]
       IN  Leave(markExecutionTrace(n), "trace", Head(pending).state)
    /\ UNCHANGED selection

InitNav ==
    /\ ready = FALSE
    /\ instanceCount = 0
    /\ backendProcess = 0
    /\ backendServerPid = 0
    /\ engine = Silicon
    /\ serverBackend = NoBackend
    /\ startingOrRestarting = FALSE
    /\ timeoutSetting = 0
    /\ platform = "linux"
    /\ state = "Idle"
    /\ timers = {}
    /\ readyPending = {}
    /\ pidLookups = {}
    /\ exitPending = FALSE
    /\ out = <<>>
    /\ last = [op |-> "init", gen |-> 0]
    /\ readySince = FALSE
    /\ stoppedWhileStarting = FALSE
    /\ refReady = FALSE
    /\ refBackend = NoBackend
    /\ refPid = 0
    /\ showStates \in BOOLEAN
    /\ simpleMode \in BOOLEAN
    /\ compareStates \in BOOLEAN
    /\ NavigatorConstructed
    /\ RegistryConstructed
    /\ EditingConstructed

NextNav ==
    \/ \E decorations \in DecorationSequences : StoreNewStates(decorations)
    \/ Reset
    \/ CompleteReset
    \/ \E pos \in Positions : ShowStateSelection(pos)
    \/ HeapResponse
    \/ \E n \in 1..MaxSteps : \E showNumber \in [1..n -> BOOLEAN] :
           TraceResponse(showNumber)

SpecNav == InitNav /\ [][NextNav]_vars

(***************************************************************************)
(* One verification shown: the steps are loaded once, then states are      *)
(* selected and the server answers; nothing resets the navigator.          *)
(***************************************************************************)
\* the steps of the verification arrive, before anything else happens
LoadOnce(decorations) ==
    /\ last.op = "init"
    /\ StoreNewStates(decorations)

NextSession ==
    \/ \E decorations \in DecorationSequences : LoadOnce(decorations)
    \/ \E pos \in Positions : ShowStateSelection(pos)
    \/ HeapResponse
    \/ \E n \in 1..MaxSteps : \E showNumber \in [1..n -> BOOLEAN] :
           TraceResponse(showNumber)

SpecSession == InitNav /\ [][NextSession]_vars

(***************************************************************************)
(* Load, then select: the steps are loaded, one state is selected and the  *)
(* server answers.                                                         *)
(***************************************************************************)
\* the first selection after the steps were loaded
SelectOnce(pos) ==
    /\ last.op = "store"
    /\ ShowStateSelection(pos)

NextLoadSelect ==
    \/ \E decorations \in DecorationSequences : LoadOnce(decorations)
    \/ \E pos \in Positions : SelectOnce(pos)
    \/ HeapResponse
    \/ \E n \in 1..MaxSteps : \E showNumber \in [1..n -> BOOLEAN] :
           TraceResponse(showNumber)

SpecLoadSelect == InitNav /\ [][NextLoadSelect]_vars

(***************************************************************************)
(* The colouring of one step: StateVisualizer.color applied again and      *)
(* again to one decoration, as the passes over the decorations do.  Here   *)
(* out holds the colours asked for so far, the oldest first.               *)
(***************************************************************************)
\* the most color() calls made on the step
MaxCalls == 3

\* the roles StateColors gives a colour for
StateColorRoles ==
    { "currentState", "previousState", "errorState", "interestingState",
      "uninterestingState" }

\* the service as constructed, nothing started
ServiceConstructed ==
    /\ ready = FALSE
    /\ instanceCount = 0
    /\ backendProcess = 0
    /\ backendServerPid = 0
    /\ engine = Silicon
    /\ serverBackend = NoBackend
    /\ startingOrRestarting = FALSE
    /\ timeoutSetting = 0
    /\ platform = "linux"
    /\ state = "Idle"
    /\ timers = {}
    /\ readyPending = {}
    /\ pidLookups = {}
    /\ exitPending = FALSE
    /\ readySince = FALSE
    /\ stoppedWhileStarting = FALSE
    /\ refReady = FALSE
    /\ refBackend = NoBackend
    /\ refPid = 0

\* one step is loaded and holds any of the colours
InitColor ==
    /\ ServiceConstructed
    /\ out = <<>>
    /\ last = [op |-> "init", gen |-> 0]
    /\ showStates = TRUE
    /\ simpleMode = FALSE
    /\ compareStates = FALSE
    /\ \E isErrorState \in BOOLEAN : \E held \in StateColorRoles :
           decorationOptions =
               << [Decoration(0, FirstPosition, isErrorState)
                      EXCEPT !.color = held] >>
    /\ decorationOptionsByPosition =
           MapSet(<<>>, vscodePosToKey(FirstPosition), 1)
    /\ currentState = NoState
    /\ previousState = NoState
    /\ currentDepth = Undefined
    /\ nextHeapIndex = 0
    /\ heapGraphs = << NoHeapGraph, NoHeapGraph >>
    /\ executionTrace = NoTrace
    /\ pending = <<>>
    /\ selection = NoSelection
    /\ RegistryConstructed
    /\ EditingConstructed

\* this.color(option, newColor, darkGraphs) on the step
ColorCall(newColor) ==
    /\ Len(out) < MaxCalls
    /\ decorationOptions' =
           [decorationOptions EXCEPT ![1] = color(@, newColor)]
    /\ out' = Append(out, Ev("color", newColor, 0))
    /\ last' = [op |-> "color", gen |-> Len(out) + 1]
    /\ UNCHANGED << service, registry, editing, showStates, simpleMode,
                    compareStates, decorationOptionsByPosition, currentState, previousState,
                    currentDepth, nextHeapIndex, heapGraphs, executionTrace,
                    pending, selection >>

NextColor == \E newColor \in StateColorRoles : ColorCall(newColor)

SpecColor == InitColor /\ [][NextColor]_vars

(***************************************************************************)
(* The registry of the files: State's operations on viperFiles, with the   *)
(* verifications and the navigation that give the files something to       *)
(* reset.  The navigator of each file is a field of its ViperFileState.    *)
(***************************************************************************)
\* what a lookup leaves: the map, the objects constructed, the object returned
Lookup(files, count, result) ==
    [viperFiles |-> files, created |-> count, result |-> result]

\* getFileState constructing a ViperFileState on every call
getFileStateAlwaysNew(files, count, uri) ==
    IF uri.form = "none" \/ ~isViperSourceFile(uriToString(uri))
    THEN Lookup(files, count, NoRecord)
    ELSE Lookup(MapSet(files, uriToString(uri),
                       ViperFileState(uriToObject(uri), count + 1)),
                count + 1, count + 1)

\* getFileState without the test for a Viper source file
getFileStateOfAnyFile(files, count, uri) ==
    IF uri.form = "none"
    THEN Lookup(files, count, NoRecord)
    ELSE IF uriToString(uri) \notin DOMAIN files
    THEN Lookup(MapSet(files, uriToString(uri),
                       ViperFileState(uriToObject(uri), count + 1)),
                count + 1, count + 1)
    ELSE Lookup(files, count, files[uriToString(uri)].id)

\* State.getFileState(uri)
getFileState(files, count, uri) ==
    IF uri.form = "none"
    THEN \* !uri
         Lookup(files, count, NoRecord)
    ELSE LET uriObject == uriToObject(uri)
             uriString == uriToString(uri)
         IN  IF ~isViperSourceFile(uriString)
             THEN Lookup(files, count, NoRecord)
             ELSE IF uriString \notin DOMAIN files
             THEN LET result == ViperFileState(uriObject, count + 1)
                  IN  Lookup(MapSet(files, uriString, result), count + 1,
                             result.id)
             ELSE Lookup(files, count, files[uriString].id)

\* the navigator of a file between two events: the fields of StateVisualizer
\* (the requests it sent are not followed here)
Settled(n) == [n EXCEPT !.pending = <<>>, !.out = <<>>, !.threw = FALSE]

\* resetViperFiles leaving the navigators alone
resetViperFilesFlagsOnly(files) ==
    [ k \in DOMAIN files |->
          [files[k] EXCEPT !.changed = TRUE,
                           !.verified = FALSE,
                           !.verifying = FALSE,
                           !.decorationsShown = FALSE] ]

\* State.resetViperFiles: the loop over viperFiles
resetViperFiles(files) ==
    [ k \in DOMAIN files |->
          [files[k] EXCEPT !.changed = TRUE,
                           !.verified = FALSE,
                           !.verifying = FALSE,
                           !.decorationsShown = FALSE,
                           !.stateVisualizer = Settled(completeReset(@))] ]

\* State.getFileState(uri), called by any part of the client
GetFileState(uri) ==
    LET found == getFileState(viperFiles, created, uri)
    IN  /\ found.created <= MaxRecords
        /\ viperFiles' = found.viperFiles
        /\ created' = found.created
        /\ out' = << Ev("getFileState", uriToString(uri), found.result) >>
        /\ last' = [op |-> "getFileState", gen |-> found.result]
        /\ UNCHANGED << service, navigator, editing, jobs >>

\* State.getVisualizer(uri): the navigator of the file state, or null
GetVisualizer(uri) ==
    LET found == getFileState(viperFiles, created, uri)
    IN  /\ found.created <= MaxRecords
        /\ viperFiles' = found.viperFiles
        /\ created' = found.created
        /\ out' = << Ev("getVisualizer", uriToString(uri), found.result) >>
        /\ last' = [op |-> "getVisualizer", gen |-> found.result]
        /\ UNCHANGED << service, navigator, editing, jobs >>

\* State.resetViperFiles
ResetViperFiles ==
    /\ viperFiles' = resetViperFiles(viperFiles)
    /\ out' = << Ev("Log.log", "Reset all viper files", 0) >>
    /\ last' = [op |-> "resetViperFiles", gen |-> 0]
    /\ UNCHANGED << service, navigator, editing, created, jobs >>

\* State.reset: a new, empty map
StateReset ==
    /\ viperFiles' = <<>>
    /\ out' = <<>>
    /\ last' = [op |-> "reset", gen |-> 0]
    /\ UNCHANGED << service, navigator, editing, created, jobs >>

\* a verification of the file is requested: refused while the file state says
\* that one is running, started otherwise
Verify(key) ==
    /\ key \in DOMAIN viperFiles
    /\ IF viperFiles[key].verifying
       THEN /\ out' = << Ev("VerificationAlreadyRunning", key, 0) >>
            /\ UNCHANGED << viperFiles, jobs >>
       ELSE /\ jobs[key] < MaxJobs
            /\ viperFiles' = [viperFiles EXCEPT ![key].verifying = TRUE]
            /\ jobs' = [jobs EXCEPT ![key] = @ + 1]
            /\ out' = << Ev("Verify", key, 0) >>
    /\ last' = [op |-> "verify", gen |-> viperFiles[key].id]
    /\ UNCHANGED << service, navigator, editing, created >>

\* a verification job of the file ends and its steps arrive
VerificationFinished(key, decorations) ==
    /\ jobs[key] > 0
    /\ jobs' = [jobs EXCEPT ![key] = @ - 1]
    /\ viperFiles' =
           IF key \in DOMAIN viperFiles
           THEN [viperFiles EXCEPT
                     ![key].verifying = FALSE,
                     ![key].verified = TRUE,
                     ![key].changed = FALSE,
                     ![key].decorationsShown = TRUE,
                     ![key].stateVisualizer =
                         Settled(storeNewStates(@, decorations))]
           ELSE viperFiles
    /\ out' = <<>>
    /\ last' = [op |-> "verified", gen |-> Len(decorations)]
    /\ UNCHANGED << service, navigator, editing, created >>

\* the steps a verification of a registered file reports: MaxSteps steps, the
\* first at the first position, the others at the second, no error state
ReportedSteps ==
    { d \in DecorationSequences :
          /\ Len(d) = MaxSteps
          /\ \A k \in DOMAIN d :
                 /\ ~d[k].isErrorState
                 /\ k > 1 => d[k].start # FirstPosition }

InitRegistry ==
    /\ ServiceConstructed
    /\ out = <<>>
    /\ last = [op |-> "init", gen |-> 0]
    /\ showStates = TRUE
    /\ simpleMode = FALSE
    /\ compareStates = TRUE
    /\ NavigatorConstructed
    /\ RegistryConstructed
    /\ EditingConstructed

NextRegistry ==
    \/ \E uri \in Uris : GetFileState(uri)
    \/ \E uri \in Uris : GetVisualizer(uri)
    \/ ResetViperFiles
    \/ StateReset
    \/ \E key \in ViperUriStrings : Verify(key)
    \/ \E key \in ViperUriStrings :
           \E decorations \in ReportedSteps :
               VerificationFinished(key, decorations)

SpecRegistry == InitRegistry /\ [][NextRegistry]_vars

(***************************************************************************)
(* The global reset: State.resetViperFiles applied to a registry whose     *)
(* files were verified and navigated.  The flags of a file state are set   *)
(* by many parts of the client, so a file holds any combination of them;   *)
(* its navigator is one that storeNewStates and pushState leave.           *)
(***************************************************************************)
\* the navigator after the heap graph of state s was pushed to it
Navigated(n, s) == Settled(pushState(n, HeapGraph(s, TRUE, Uri)))

\* the navigators of a registered file: new, with the steps of a
\* verification, and after one or two states were shown
FileNavigators ==
    LET loaded == { Settled(storeNewStates(NewStateVisualizer, d)) :
                        d \in ReportedSteps }
        once == { Navigated(n, s) : n \in loaded, s \in 0..(MaxSteps - 1) }
        twice == { Navigated(n, s) : n \in once, s \in 0..(MaxSteps - 1) }
    IN  {NewStateVisualizer} \cup loaded \cup once \cup twice

\* the Viper source files in the order they are registered
ViperFileOrder == << "file:///a.vpr", "file:///b.sil" >>

\* the flags of a file state (changed, verified, verifying, decorationsShown)
\* as construction, the start and the end of a verification leave them
FileFlags ==
    { << TRUE, FALSE, FALSE, FALSE >>, << TRUE, FALSE, TRUE, FALSE >>,
      << FALSE, TRUE, FALSE, TRUE >>, << FALSE, TRUE, TRUE, TRUE >> }

\* the file states the file registered as the id-th may be in
FileStates(id) ==
    { [ViperFileState([form |-> "object", name |-> file.name,
                       ending |-> file.ending], id)
          EXCEPT !.changed = flags[1],
                 !.verified = flags[2],
                 !.verifying = flags[3],
                 !.decorationsShown = flags[4],
                 !.stateVisualizer = n] :
          file \in { f \in Files : "file:///" \o f.name \o f.ending
                                       = ViperFileOrder[id] },
          flags \in FileFlags,
          n \in FileNavigators }

\* a file that is not registered
Unregistered == [id |-> NoRecord]

\* the registry holding the first file as `first` and the second as `second`
RegistryOf(first, second) ==
    [ k \in { ViperFileOrder[i] :
                  i \in { j \in 1..2 : << first, second >>[j].id # NoRecord } }
        |-> IF k = ViperFileOrder[1] THEN first ELSE second ]

InitReset ==
    /\ ServiceConstructed
    /\ out = <<>>
    /\ last = [op |-> "init", gen |-> 0]
    /\ showStates = TRUE
    /\ simpleMode = FALSE
    /\ compareStates \in BOOLEAN
    /\ NavigatorConstructed
    /\ \E first \in FileStates(1) \cup {Unregistered} :
       \E second \in FileStates(2) \cup {Unregistered} :
           /\ viperFiles = RegistryOf(first, second)
           /\ created = IF second.id # NoRecord THEN 2
                        ELSE IF first.id # NoRecord THEN 1 ELSE 0
    /\ jobs = [k \in ViperUriStrings |-> 0]
    /\ EditingConstructed

NextReset == ResetViperFiles

SpecReset == InitReset /\ [][NextReset]_vars

(***************************************************************************)
(* Part 4: the edits of the document (client: StateVisualizer):            *)
(* addTimingInformationToFile, addCharacterToDecorationOptionLocations,    *)
(* removeSpecialCharacters, removeSpecialCharsFromClosedDocument and the   *)
(* answers of vscode.workspace.applyEdit, TextDocument.save and            *)
(* fs.readFile.  A handler runs to its end before the next one starts; an  *)
(* answer arrives in a step of its own.  save() answers true or false and  *)
(* its handler does not look at the answer.  A callback is opaque: the     *)
(* model records that it was called.                                       *)
(***************************************************************************)
\* the check of the flags with only the first of its two tests
areSpecialCharsBeingAdded == addingSpecialChars

\* StateVisualizer.areSpecialCharsBeingModified
areSpecialCharsBeingModified == addingSpecialChars \/ removingSpecialChars

\* StateVisualizer.callTheRemoveSpecialCharCallbacks: the calls it makes,
\* oldest callback first, each one shifted off the queue before its call
callTheRemoveSpecialCharCallbacks(callbacks, removing) ==
    [i \in 1..Len(callbacks) |-> Call(callbacks[i], removing)]

\* a sequence without its i-th element
WithoutEdit(es, i) ==
    [j \in 1..(Len(es) - 1) |-> IF j < i THEN es[j] ELSE es[j + 1]]

\* StateVisualizer.addTimingInformationToFile
AddTimingInformationToFile ==
    /\ Len(edits) < MaxEdits
    /\ last' = [op |-> "addTimingInformationToFile", gen |-> 0]
    /\ IF areSpecialCharsBeingModified
       THEN /\ out' = << Ev("Log.log", "Don't add timing to file", 0) >>
            /\ UNCHANGED << addingTimingInformation, edits,
                            onlySpecialCharsChanged >>
       ELSE IF showProgress /\ editor
       THEN /\ addingTimingInformation' = TRUE
            /\ onlySpecialCharsChanged' = TRUE
            /\ edits' = Append(edits, Edit("timing", "apply", NoCallback))
            /\ out' = << Ev("applyEdit", "timing", 0) >>
       ELSE /\ out' = <<>>
            /\ UNCHANGED << addingTimingInformation, edits,
                            onlySpecialCharsChanged >>
    /\ UNCHANGED << service, navigator, registry, addingSpecialChars,
                    removingSpecialChars, removeSpecialCharacterCallbacks,
                    specialChars, editor, specialCharsShown, registered,
                    invoked >>

\* StateVisualizer.addCharacterToDecorationOptionLocations
AddCharacterToDecorationOptionLocations ==
    /\ Len(edits) < MaxEdits
    /\ registered < MaxCallbacks
    /\ registered' = registered + 1
    /\ last' = [op |-> "addCharacterToDecorationOptionLocations",
                gen |-> registered + 1]
    /\ IF areSpecialCharsBeingModified
       THEN /\ out' = << Ev("Log.log", "Try to add special chars", 0),
                         Ev("Log.log", "Don't add special chars", 0) >>
            /\ UNCHANGED << addingSpecialChars, specialCharsShown, edits,
                            onlySpecialCharsChanged >>
       ELSE IF Len(decorationOptions) = 0
       THEN /\ out' = << Ev("Log.log", "Try to add special chars", 0) >>
            /\ UNCHANGED << addingSpecialChars, specialCharsShown, edits,
                            onlySpecialCharsChanged >>
       ELSE IF showStates /\ editor
       THEN /\ addingSpecialChars' = TRUE
            /\ specialCharsShown' = TRUE
            /\ onlySpecialCharsChanged' = TRUE
            /\ edits' = Append(edits, Edit("add", "apply", registered + 1))
            /\ out' = << Ev("Log.log", "Try to add special chars", 0),
                         Ev("Log.log", "Adding Special characters", 0),
                         Ev("applyEdit", "add", 0) >>
       ELSE /\ out' = << Ev("Log.log", "Try to add special chars", 0) >>
            /\ UNCHANGED << addingSpecialChars, specialCharsShown, edits,
                            onlySpecialCharsChanged >>
    /\ UNCHANGED << service, navigator, registry, removingSpecialChars,
                    addingTimingInformation,
                    removeSpecialCharacterCallbacks, specialChars, editor,
                    invoked >>

\* StateVisualizer.removeSpecialCharacters
RemoveSpecialCharacters ==
    /\ Len(edits) < MaxEdits
    /\ registered < MaxCallbacks
    /\ registered' = registered + 1
    /\ last' = [op |-> "removeSpecialCharacters", gen |-> registered + 1]
    /\ LET callbacks ==
               Append(removeSpecialCharacterCallbacks, registered + 1)
       IN  IF areSpecialCharsBeingModified
           THEN /\ removeSpecialCharacterCallbacks' = callbacks
                /\ out' = << Ev("Log.log", "Don't remove special chars", 0) >>
                /\ UNCHANGED << removingSpecialChars, edits, invoked,
                                onlySpecialCharsChanged >>
           ELSE IF ~editor
           THEN /\ removeSpecialCharacterCallbacks' = callbacks
                /\ out' = << Ev("Log.error", "no document", 0) >>
                /\ UNCHANGED << removingSpecialChars, edits, invoked,
                                onlySpecialCharsChanged >>
           ELSE IF specialChars
           THEN /\ removeSpecialCharacterCallbacks' = callbacks
                /\ removingSpecialChars' = TRUE
                /\ onlySpecialCharsChanged' = TRUE
                /\ edits' = Append(edits, Edit("remove", "apply", NoCallback))
                /\ out' = << Ev("applyEdit", "remove", 0) >>
                /\ UNCHANGED invoked
           ELSE /\ removingSpecialChars' = FALSE
                /\ removeSpecialCharacterCallbacks' = <<>>
                /\ invoked' = invoked \o
                       callTheRemoveSpecialCharCallbacks(callbacks, FALSE)
                /\ out' = <<>>
                /\ UNCHANGED << edits, onlySpecialCharsChanged >>
    /\ UNCHANGED << service, navigator, registry, addingSpecialChars,
                    addingTimingInformation, specialChars, editor,
                    specialCharsShown >>

\* StateVisualizer.removeSpecialCharsFromClosedDocument
RemoveSpecialCharsFromClosedDocument ==
    /\ Len(edits) < MaxEdits
    /\ registered < MaxCallbacks
    /\ registered' = registered + 1
    /\ last' = [op |-> "removeSpecialCharsFromClosedDocument",
                gen |-> registered + 1]
    /\ IF areSpecialCharsBeingModified
       THEN /\ out' = << Ev("Log.log", "Don't remove special chars", 0) >>
            /\ UNCHANGED << removingSpecialChars, edits >>
       ELSE /\ removingSpecialChars' = TRUE
            /\ edits' = Append(edits, Edit("closed", "read", registered + 1))
            /\ out' = << Ev("readFile", "closed", 0) >>
    /\ UNCHANGED << service, navigator, registry, addingSpecialChars,
                    addingTimingInformation,
                    removeSpecialCharacterCallbacks, specialChars, editor,
                    specialCharsShown, onlySpecialCharsChanged, invoked >>

\* the answers of vscode.workspace.applyEdit
ApplyOutcomes == {"applied", "notApplied", "rejected"}

\* the handlers given to applyEdit(edit).then: the edit was applied (save
\* is called), was not applied, or the promise was rejected
ApplyEditAnswered(i, outcome) ==
    /\ i \in DOMAIN edits
    /\ edits[i].stage = "apply"
    /\ last' = [op |-> "applyEdit." \o outcome, gen |-> 0]
    /\ IF outcome = "applied"
       THEN /\ edits' = [edits EXCEPT ![i].stage = "save"]
            /\ specialChars' = CASE edits[i].kind = "add" -> TRUE
                                 [] edits[i].kind = "remove" -> FALSE
                                 [] OTHER -> specialChars
            /\ out' = << Ev("save", edits[i].kind, 0) >>
            /\ UNCHANGED << addingSpecialChars, removingSpecialChars,
                            addingTimingInformation >>
       ELSE /\ edits' = WithoutEdit(edits, i)
            /\ addingSpecialChars' =
                   IF edits[i].kind = "add" THEN FALSE
                   ELSE addingSpecialChars
            /\ removingSpecialChars' =
                   IF edits[i].kind = "remove" THEN FALSE
                   ELSE removingSpecialChars
            /\ addingTimingInformation' =
                   IF edits[i].kind = "timing" THEN FALSE
                   ELSE addingTimingInformation
            /\ out' = IF outcome = "rejected"
                      THEN << Ev("Log.error", edits[i].kind, 0) >>
                      ELSE <<>>
            /\ UNCHANGED specialChars
    /\ UNCHANGED << service, navigator, registry,
                    removeSpecialCharacterCallbacks, editor,
                    specialCharsShown, onlySpecialCharsChanged, registered,
                    invoked >>

\* the handler given to save().then, whatever save answered
SaveAnswered(i, saved) ==
    /\ i \in DOMAIN edits
    /\ edits[i].stage = "save"
    /\ last' = [op |-> "save", gen |-> 0]
    /\ edits' = WithoutEdit(edits, i)
    /\ out' = << Ev("Log.log", edits[i].kind, 0) >>
    /\ CASE edits[i].kind = "add" ->
              /\ addingSpecialChars' = FALSE
              /\ invoked' = Append(invoked, Call(edits[i].callback,
                                                 removingSpecialChars))
              /\ UNCHANGED << removingSpecialChars, addingTimingInformation,
                              removeSpecialCharacterCallbacks,
                              specialCharsShown >>
         [] edits[i].kind = "remove" ->
              /\ removingSpecialChars' = FALSE
              /\ specialCharsShown' = FALSE
              /\ invoked' = invoked \o
                     callTheRemoveSpecialCharCallbacks(
                         removeSpecialCharacterCallbacks, FALSE)
              /\ removeSpecialCharacterCallbacks' = <<>>
              /\ UNCHANGED << addingSpecialChars, addingTimingInformation >>
         [] OTHER ->
              /\ addingTimingInformation' = FALSE
              /\ UNCHANGED << addingSpecialChars, removingSpecialChars,
                              removeSpecialCharacterCallbacks,
                              specialCharsShown, invoked >>
    /\ UNCHANGED << service, navigator, registry, specialChars, editor,
                    onlySpecialCharsChanged, registered >>

\* what the callback of fs.readFile meets: the data of the file, an error
\* of the read, or the data and a writeFileSync that throws
ReadOutcomes == {"data", "error", "writeFails"}

\* the callback given to fs.readFile
ReadFileAnswered(i, outcome) ==
    /\ i \in DOMAIN edits
    /\ edits[i].stage = "read"
    /\ outcome = "writeFails" => specialChars
    /\ last' = [op |-> "readFile." \o outcome, gen |-> 0]
    /\ edits' = WithoutEdit(edits, i)
    /\ CASE outcome = "data" ->
              /\ specialChars' = FALSE
              /\ onlySpecialCharsChanged' =
                     (specialChars \/ onlySpecialCharsChanged)
              /\ removingSpecialChars' = FALSE
              /\ specialCharsShown' = FALSE
              /\ invoked' = Append(invoked, Call(edits[i].callback, FALSE))
              /\ out' = << Ev("Log.log", "closed", 0) >>
         [] outcome = "error" ->
              /\ removingSpecialChars' = FALSE
              /\ out' = << Ev("Log.log", "WARNING", 0) >>
              /\ UNCHANGED << specialChars, onlySpecialCharsChanged,
                              specialCharsShown, invoked >>
         [] OTHER ->
              /\ onlySpecialCharsChanged' = TRUE
              /\ out' = << Ev("Error", "writeFileSync", 0) >>
              /\ UNCHANGED << removingSpecialChars, specialChars,
                              specialCharsShown, invoked >>
    /\ UNCHANGED << service, navigator, registry, addingSpecialChars,
                    addingTimingInformation,
                    removeSpecialCharacterCallbacks, editor, registered >>

\* the document of one file: shown in an editor or not, with or without
\* special characters left in it, its steps loaded or not
InitEdit ==
    /\ ServiceConstructed
    /\ out = <<>>
    /\ last = [op |-> "init", gen |-> 0]
    /\ showStates \in BOOLEAN
    /\ simpleMode = FALSE
    /\ compareStates = FALSE
    /\ \E loaded \in BOOLEAN :
           /\ decorationOptions =
                  IF loaded THEN << Decoration(0, FirstPosition, FALSE) >>
                  ELSE <<>>
           /\ decorationOptionsByPosition =
                  IF loaded
                  THEN MapSet(<<>>, vscodePosToKey(FirstPosition), 1)
                  ELSE <<>>
    /\ currentState = Undefined
    /\ previousState = Undefined
    /\ currentDepth = Undefined
    /\ nextHeapIndex = 0
    /\ heapGraphs = << NoHeapGraph, NoHeapGraph >>
    /\ executionTrace = NoTrace
    /\ pending = <<>>
    /\ selection = NoSelection
    /\ RegistryConstructed
    /\ addingSpecialChars = FALSE
    /\ removingSpecialChars = FALSE
    /\ addingTimingInformation = FALSE
    /\ removeSpecialCharacterCallbacks = <<>>
    /\ edits = <<>>
    /\ specialChars \in BOOLEAN
    /\ editor \in BOOLEAN
    /\ specialCharsShown = FALSE
    /\ onlySpecialCharsChanged = FALSE
    /\ registered = 0
    /\ invoked = <<>>

NextEdit ==
    \/ AddTimingInformationToFile
    \/ AddCharacterToDecorationOptionLocations
    \/ RemoveSpecialCharacters
    \/ RemoveSpecialCharsFromClosedDocument
    \/ \E i \in 1..MaxEdits : \E outcome \in ApplyOutcomes :
           ApplyEditAnswered(i, outcome)
    \/ \E i \in 1..MaxEdits : \E saved \in BOOLEAN : SaveAnswered(i, saved)
    \/ \E i \in 1..MaxEdits : \E outcome \in ReadOutcomes :
           ReadFileAnswered(i, outcome)

SpecEdit == InitEdit /\ [][NextEdit]_vars

(***************************************************************************)
(* Properties of the backend lifecycle.                                    *)
(***************************************************************************)
\* the fields of the lifecycle a callback may change
lifecycle ==
    << ready, instanceCount, backendProcess, backendServerPid, serverBackend,
       startingOrRestarting, state, exitPending, readyPending, pidLookups >>

Emitted(kind) == \E i \in DOMAIN out : out[i].kind = kind

\* the readiness signal of generation g has been delivered
ReadinessArrived(g) ==
    /\ g <= instanceCount
    /\ ~ \E r \in readyPending : r.gen = g

\* nothing asynchronous is outstanding
Quiescent ==
    /\ timers = {}
    /\ readyPending = {}
    /\ pidLookups = {}
    /\ ~exitPending

\* C1: the callback of the timer armed by startTimeout(g) does nothing (no
\* hint, no kill, no change of the lifecycle) when instanceCount differs from g
\* at the moment it runs.
StaleTimeoutIsNoOp ==
    [][ (last'.op = "timeout" /\ last'.gen # instanceCount) =>
            (out' = <<>> /\ UNCHANGED lifecycle) ]_vars

\* C1 witness: the timer of a superseded generation has run while the
\* lifecycle was starting and not ready; only the generation check held it back
StaleTimeoutFired ==
    /\ last.op = "timeout"
    /\ last.gen < instanceCount
    /\ ~ready
    /\ state = "Starting"
    /\ out = <<>>

\* C2: the PID lookup started by setReady in generation g changes
\* backendServerPid in no way once instanceCount has moved past g.
StalePidIsDiscarded ==
    [][ (last'.op = "pid" /\ last'.gen # instanceCount) =>
            backendServerPid' = backendServerPid ]_vars

\* C3: a readiness signal of a superseded generation does not mark the
\* lifecycle ready, does not replace Server.backend and sends no BackendReady.
StaleReadinessIsDiscarded ==
    [][ (last'.op = "ready" /\ last'.gen # instanceCount) =>
            /\ ready' = ready
            /\ serverBackend' = serverBackend
            /\ ~ \E i \in DOMAIN out' : out'[i].kind = "BackendReady" ]_vars

\* C4: when the timer armed by the latest start() runs and no readiness signal
\* has arrived since that start, the timeout hint is emitted, the current
\* process is terminated and the lifecycle is stopping; from there it reaches
\* Stopped.
TimeoutKillsBackend ==
    /\ [][ (last'.op = "timeout" /\ last'.gen = instanceCount /\ ~readySince) =>
               /\ \E i \in DOMAIN out' : out'[i].kind = "hint"
               /\ ~ready'
               /\ state' \in {"Stopping", "Stopped"}
               /\ state' = "Stopping" => exitPending'
               /\ backendProcess # 0 =>
                      \E i \in DOMAIN out' :
                          out'[i] = Ev("terminate", "process", backendProcess) ]_vars
    /\ (last.op = "timeout" /\ Emitted("hint")) ~> (state = "Stopped")

\* C4 witness: the startup timer of the current generation has expired before
\* any readiness signal; the hint is out and the process is being terminated
StartupTimedOut ==
    /\ last.op = "timeout"
    /\ last.gen = instanceCount
    /\ ~readySince
    /\ Emitted("hint")
    /\ Emitted("terminate")
    /\ state = "Stopping"

\* C5: once the readiness signal of a generation has arrived, the timer of that
\* generation emits no hint and kills nothing, whatever happened in between.
ReadinessCancelsTimeout ==
    [][ (last'.op = "timeout" /\ ReadinessArrived(last'.gen)) =>
            (out' = <<>> /\ UNCHANGED lifecycle) ]_vars

\* C6: after a stop() issued while a start was pending, the lifecycle is not
\* ready until the next start().
StopWhileStartingStaysNotReady == stoppedWhileStarting => ~ready

\* C7: isReady() becomes true only from the Starting state.
ReadyOnlyFromStarting ==
    [][ (ready' /\ ~ready) => state = "Starting" ]_vars

\* C8: isBackendCompatible(backend) is true exactly when the engine of the
\* backend equals the engine of the service, compared case-insensitively.
CompatibleIffEnginesMatch ==
    serverBackend # NoBackend =>
        (isBackendCompatible(serverBackend) <=>
             toLowerCase(serverBackend.engine) = toLowerCase(engine))

\* C9: startStageProcess with a backend of a valid type: when the engine of
\* Server.backend differs from the engine of the service an error is reported,
\* startVerifyProcess is not invoked and readiness is unchanged; when the
\* engines match no error is reported and startVerifyProcess is invoked.
MismatchIsRefused ==
    [][ ( /\ last'.op = "stage"
          /\ serverBackend.type \in {"silicon", "carbon", "other"} ) =>
            IF toLowerCase(serverBackend.engine) # toLowerCase(engine)
            THEN /\ \E i \in DOMAIN out' : out'[i].kind = "Log.error"
                 /\ ~ \E i \in DOMAIN out' : out'[i].kind = "startVerifyProcess"
                 /\ ready' = ready
            ELSE /\ ~ \E i \in DOMAIN out' : out'[i].kind = "Log.error"
                 /\ \E i \in DOMAIN out' : out'[i].kind = "startVerifyProcess" ]_vars

\* C10: when nothing asynchronous is outstanding, the ready flag, the active
\* backend and the PID equal those of the reference run, which applies only the
\* completions of the latest generation.
StaleCompletionInvariance ==
    Quiescent =>
        /\ ready = refReady
        /\ serverBackend = refBackend
        /\ backendServerPid = refPid

\* the events of one kind among those the last step emitted
EmittedOfKind(events, kind) ==
    LET Is(e) == e.kind = kind IN SelectSeq(events, Is)

SetReadySendsOneBackendReady ==
    [][ IF last'.op = "ready"
        THEN \E r \in readyPending \ readyPending' :
                 /\ ready'
                 /\ state' = "Ready"
                 /\ ~startingOrRestarting'
                 /\ EmittedOfKind(out', "BackendReady") =
                        << Ev("BackendReady", r.backend.name, 0) >>
        ELSE EmittedOfKind(out', "BackendReady") = <<>> ]_vars

\* C12 witness: setReady(B) has run; the lifecycle is ready and the one
\* notification carries the name of B
BackendReadySentForB ==
    /\ last.op = "ready"
    /\ ready
    /\ serverBackend = BackendB
    /\ ~startingOrRestarting
    /\ EmittedOfKind(out, "BackendReady") = << Ev("BackendReady", "B", 0) >>

\* C13 (as stated): every transition into Ready, Stopping or Stopped emits a
\* StateChange that carries the new state.
EveryTransitionEmitsStateChange ==
    [][ (state' # state /\ state' \in {"Ready", "Stopping", "Stopped"}) =>
            \E i \in DOMAIN out' : out'[i] = Ev("StateChange", state', 0) ]_vars

\* C13: every transition into Stopping or Stopped emits a StateChange that
\* carries the new state; the transition into Ready emits a BackendReady and
\* no StateChange.
StoppingAndStoppedEmitStateChange ==
    [][ /\ (state' # state /\ state' \in {"Stopping", "Stopped"}) =>
               EmittedOfKind(out', "StateChange") =
                   << Ev("StateChange", state', 0) >>
        /\ (state' # state /\ state' = "Ready") =>
               /\ EmittedOfKind(out', "StateChange") = <<>>
               /\ EmittedOfKind(out', "BackendReady") # <<>> ]_vars

\* C13 witness: a lifecycle that was ready has been stopped and its
\* termination confirmed; the StateChange of the last transition is out
StoppedAfterReady ==
    /\ last.op = "exit"
    /\ state = "Stopped"
    /\ readySince
    /\ EmittedOfKind(out, "StateChange") = << Ev("StateChange", "Stopped", 0) >>

\* C14: a PID resolution that fails after setReady is logged and nothing
\* more: backendServerPid keeps its value, the readiness of the lifecycle is
\* as it was (ready when the failure is setReady's own), and the BackendReady
\* of that setReady is sent all the same.
FailedPidLookupIsNonFatal ==
    [][ ( /\ last'.op \in {"ready", "pid"}
          /\ \E i \in DOMAIN out' : out'[i] = Ev("Log.error", "pid", 0) ) =>
            /\ backendServerPid' = backendServerPid
            /\ last'.op = "pid" =>
                   UNCHANGED << ready, state, serverBackend,
                                startingOrRestarting, instanceCount,
                                backendProcess, timers >>
            /\ last'.op = "ready" =>
                   /\ ready'
                   /\ state' = "Ready"
                   /\ EmittedOfKind(out', "BackendReady") # <<>> ]_vars

\* C14 witness: the lookup of a ready backend has failed while an earlier
\* lookup had resolved a PID; the lifecycle is ready and the PID is kept
PidLookupFailedWhileReady ==
    /\ last.op = "pid"
    /\ Emitted("Log.error")
    /\ ready
    /\ state = "Ready"
    /\ backendServerPid # 0

(***************************************************************************)
(* Properties of the state navigator.                                      *)
(***************************************************************************)
\* x is "none" or the index of a step of the current sequence
NoneOrStep(x) == x = NoState \/ x \in 0..(Len(decorationOptions) - 1)

\* C17: after any sequence of navigator operations, currentState and
\* previousState are each none (-1) or an index within the current step
\* sequence (a cursor field no operation has assigned yet is not judged).
CursorWithinBounds ==
    /\ currentState # Undefined => NoneOrStep(currentState)
    /\ previousState # Undefined => NoneOrStep(previousState)

\* C18: a heap graph handed to pushState / setState whose state lies outside
\* the current step sequence leaves the cursor as it was.
OutOfBoundsSelectionFails ==
    [][ ( /\ last'.op = "heap"
          /\ last'.gen \notin 0..(Len(decorationOptions) - 1) ) =>
            /\ currentState' = currentState
            /\ previousState' = previousState ]_vars

\* the places of the steps that start at the position of key
PlacesAt(options, key) ==
    { k \in DOMAIN options : vscodePosToKey(options[k].start) = key }

\* C19: storeNewStates replaces the step sequence by the one passed, resets
\* the cursor to (none, none) and rebuilds the position index, whose keys are
\* exactly the start positions of the new steps (a cursor never assigned
\* before the load is not judged).
StoreResetsCursorAndIndex ==
    [][ (last'.op = "store" /\ currentState # Undefined) =>
            /\ decorationOptions' \in DecorationSequences
            /\ Len(decorationOptions') = last'.gen
            /\ currentState' = NoState
            /\ previousState' = NoState
            /\ DOMAIN decorationOptionsByPosition' =
                   { vscodePosToKey(decorationOptions'[k].start) :
                         k \in DOMAIN decorationOptions' } ]_vars

\* C20: when steps of a loaded sequence share a source position, the error is
\* logged and the position index holds, for every position, the first of the
\* steps that start there.
DuplicatePositionKeepsFirst ==
    [][ last'.op = "store" =>
            /\ \A key \in DOMAIN decorationOptionsByPosition' :
                   \A k \in PlacesAt(decorationOptions', key) :
                       decorationOptionsByPosition'[key] <= k
            /\ (\E key \in DOMAIN decorationOptionsByPosition' :
                    Cardinality(PlacesAt(decorationOptions', key)) > 1) =>
                   \E i \in DOMAIN out' : out'[i].kind = "Log.error" ]_vars

\* C15: after state i was selected twice in a row (nothing but answers of the
\* server in between) and every answer has arrived, currentState = i and
\* previousState = none.
FocusOnRepeatedSelection ==
    (selection.repeated /\ pending = <<>>) =>
        (currentState = selection.index /\ previousState = NoState)

\* C16: after a step other than the current one was selected and every
\* answer has arrived, currentState is the selected index and previousState
\* is the currentState of before the selection.
SelectionMovesCursor ==
    ( /\ selection.index # NoState
      /\ ~selection.repeated
      /\ selection.former \notin {Undefined, selection.index}
      /\ pending = <<>> ) =>
        (currentState = selection.index /\ previousState = selection.former)

(***************************************************************************)
(* Properties of the colouring of a step.                                  *)
(***************************************************************************)
\* a call with the colour c was made on the step, and no later call asked
\* for one of the colours in `repainting`
PaintedThenOnly(c, repainting) ==
    \E k \in DOMAIN out :
        /\ out[k].name = c
        /\ \A j \in (k + 1)..Len(out) : out[j].name \notin repainting

AskedColor == out[Len(out)].name

\* C22: for every pair of a held and an asked colour, color() never paints
\* Previous over Current, paints ErrorState exactly when the step holds
\* neither Current nor Previous, paints Interesting exactly when the step
\* holds none of Current, Previous and ErrorState, and a rejected call leaves
\* the decoration as it was.
ColorFollowsPrecedence ==
    [][ last'.op = "color" =>
          LET held == decorationOptions[1].color
              asked == out'[Len(out')].name
              painted == decorationOptions'[1].color
          IN  /\ decorationOptions' =
                     [decorationOptions EXCEPT ![1].color = painted]
              /\ painted \in {held, asked}
              /\ (asked = "previousState" /\ held = "currentState")
                     => painted = held
              /\ (asked = "errorState" /\ asked # held) =>
                     (painted = asked <=>
                          held \notin {"currentState", "previousState"})
              /\ (asked = "interestingState" /\ asked # held) =>
                     (painted = asked <=>
                          held \notin {"currentState", "previousState",
                                       "errorState"}) ]_vars

\* the case of C22: a call asked for ErrorState on a step holding Previous
\* and was rejected
ErrorStateRejectedOnPrevious ==
    /\ Len(out) >= 2
    /\ out[Len(out) - 1].name = "previousState"
    /\ AskedColor = "errorState"
    /\ decorationOptions[1].color = "previousState"

(***************************************************************************)
(* Properties of the marking of the steps.                                 *)
(***************************************************************************)
\* C23: when the answer to GetExecutionTrace is applied by
\* markExecutionTrace, every step with a trace entry that is neither the
\* current nor the previous state shows its number if the entry's showNumber
\* is true and the collapsed glyph if it is false, and the current and the
\* previous step are left as they were.
TraceMarksStepsOffTheCursor ==
    [][ last'.op = "trace" =>
          \A i \in DOMAIN executionTrace'.elements :
              LET element == executionTrace'.elements[i]
                  k == element.state + 1
              IN  k \in DOMAIN decorationOptions =>
                      IF element.state \in {currentState, previousState}
                      THEN decorationOptions'[k] = decorationOptions[k]
                      ELSE decorationOptions'[k].contentText =
                               IF element.showNumber
                               THEN getLabel(decorationOptions[k])
                               ELSE collapsedSymbol ]_vars

\* the case of C23: a trace was applied that shows the number of step 0,
\* which is neither current nor previous
TraceExpandedStepZero ==
    /\ last.op = "trace"
    /\ currentState = 1
    /\ previousState # 0
    /\ Len(decorationOptions) = 2
    /\ executionTrace.elements[1].showNumber
    /\ decorationOptions[1].contentText = "(0)"

\* the decorations are shown, the cursor is on a step and every request was
\* answered: the selection is rendered
SelectionRendered ==
    /\ showStates
    /\ last.op \in {"heap", "trace"}
    /\ pending = <<>>
    /\ currentState >= 0
    /\ currentState < Len(decorationOptions)

\* C24 as stated: in simple mode, once a selection is rendered, every step
\* that is not on the path from the first step to the current state has an
\* empty label.
SimpleModeHidesStepsOffThePath ==
    (simpleMode /\ SelectionRendered) =>
        \A k \in DOMAIN decorationOptions :
            decorationOptions[k].index > currentState =>
                decorationOptions[k].contentText = ""

ErrorStepSelected ==
    /\ Len(decorationOptions) = 2
    /\ ~decorationOptions[1].isErrorState
    /\ decorationOptions[2].isErrorState
    /\ last = [op |-> "heap", gen |-> 1]

\* C26 as stated: with steps [no error state, error state], selecting state 1
\* gives currentState = 1 with the ErrorState colour on step 1, and step 0
\* holds Previous only if previousState is 0.
ErrorStepSelectedHoldsErrorColour ==
    ErrorStepSelected =>
        /\ currentState = 1
        /\ decorationOptions[2].color = "errorState"
        /\ decorationOptions[1].color = "previousState" => previousState = 0

\* C26, amended: with steps [no error state, error state], selecting state 1
\* gives currentState = 1 with the Current colour on step 1 (Current outranks
\* ErrorState), and step 0 holds Previous only if previousState is 0.
ErrorStepSelectedHoldsCurrentColour ==
    ErrorStepSelected =>
        /\ currentState = 1
        /\ decorationOptions[2].color = "currentState"
        /\ decorationOptions[1].color = "previousState" => previousState = 0

\* the case of C26: state 1 was selected after state 0, which is Previous
ErrorStepSelectedAfterStepZero ==
    /\ ErrorStepSelected
    /\ previousState = 0
    /\ decorationOptions[1].color = "previousState"

(***************************************************************************)
(* Properties of the registry of the files.                                *)
(***************************************************************************)
\* the step was a lookup: getFileState or getVisualizer
LookedUp == last.op \in {"getFileState", "getVisualizer"}

\* C27: the registry never holds two file states for one file: after a call
\* of getFileState every file state is held under the string of its own uri
\* and no object is held twice, and a call for a file that is registered
\* returns the file state held, the one its first call constructed, and
\* constructs nothing.
RegistryKeepsOneRecordPerFile ==
    [][ last'.op = "getFileState" =>
          LET key == out'[1].name
          IN  /\ \A k \in DOMAIN viperFiles' :
                     uriToString(viperFiles'[k].uri) = k
              /\ \A k1, k2 \in DOMAIN viperFiles' :
                     viperFiles'[k1].id = viperFiles'[k2].id => k1 = k2
              /\ key \in DOMAIN viperFiles =>
                     /\ viperFiles' = viperFiles
                     /\ created' = created
                     /\ last'.gen = viperFiles[key].id
              /\ last'.gen # NoRecord =>
                     /\ key \in DOMAIN viperFiles'
                     /\ viperFiles'[key].id = last'.gen ]_vars

\* the case of C27: a call returned the first file state after a second one
\* had been constructed, so the call was a repeated one
FirstRecordReturnedAgain ==
    /\ last = [op |-> "getFileState", gen |-> 1]
    /\ created = 2
    /\ Cardinality(DOMAIN viperFiles) = 2

\* C28 as stated: getFileState is total: every call returns a file state,
\* never null.
GetFileStateIsTotal == LookedUp => last.gen # NoRecord

\* C28, amended: getFileState returns a file state, held or newly
\* constructed, exactly for the uris of Viper source files; for no uri and
\* for any other file it returns null and registers nothing, and
\* getVisualizer returns null with it.
GetFileStateIsTotalOnViperFiles ==
    /\ DOMAIN viperFiles \subseteq ViperUriStrings
    /\ LookedUp =>
           /\ last.gen # NoRecord <=> isViperSourceFile(out[1].name)
           /\ last.gen # NoRecord =>
                  /\ out[1].name \in DOMAIN viperFiles
                  /\ viperFiles[out[1].name].id = last.gen

\* the case of C28: the second Viper file was looked up and its file state
\* returned
ViperFileGotItsRecord ==
    /\ last.op = "getFileState"
    /\ out[1].name = "file:///b.sil"
    /\ last.gen # NoRecord

\* C29: resetViperFiles marks every file changed and not verified, puts the
\* cursor of every navigator to (none, none) and empties its steps, and
\* leaves the registry holding the same file states under the same uris.
ResetMarksEveryFileStale ==
    [][ last'.op = "resetViperFiles" =>
          /\ DOMAIN viperFiles' = DOMAIN viperFiles
          /\ created' = created
          /\ \A k \in DOMAIN viperFiles :
                 /\ viperFiles'[k].id = viperFiles[k].id
                 /\ viperFiles'[k].uri = viperFiles[k].uri
                 /\ viperFiles'[k].changed
                 /\ ~viperFiles'[k].verified
                 /\ viperFiles'[k].stateVisualizer.currentState = NoState
                 /\ viperFiles'[k].stateVisualizer.previousState = NoState
                 /\ viperFiles'[k].stateVisualizer.decorationOptions = <<>>
                 /\ viperFiles'[k].stateVisualizer.decorationOptionsByPosition
                        = <<>> ]_vars

\* the case of C29: two files were reset, one of which had state 1 shown
\* (the depth of the state shown outlives the reset)
TwoFilesReset ==
    /\ last.op = "resetViperFiles"
    /\ Cardinality(DOMAIN viperFiles) = 2
    /\ \E k \in DOMAIN viperFiles :
           viperFiles[k].stateVisualizer.currentDepth = 1

TimeoutAfterStopIsSilent ==
    [][ (/\ last'.op = "timeout"
         /\ last'.gen = instanceCount
         /\ state \in {"Stopping", "Stopped"})
            => \A i \in DOMAIN out' :
                   out'[i].kind \notin {"hint", "terminate"} ]_vars

(***************************************************************************)
(* Properties of the answers of the server and of the cached trace.        *)
(***************************************************************************)
\* C32: a heap graph that createAndShowHeap rejects (it holds no heap)
\* leaves the navigator as it was: the cursor, nextHeapIndex and the colours
\* of the steps are the same after pushState / setState as before.
RejectedHeapGraphChangesNothing ==
    [][ (last'.op = "heap" /\ ~Head(pending).isHeapNeeded) =>
          /\ currentState' = currentState
          /\ previousState' = previousState
          /\ nextHeapIndex' = nextHeapIndex
          /\ \A k \in DOMAIN decorationOptions :
                 decorationOptions'[k].color = decorationOptions[k].color
       ]_vars

\* C33: an answer to GetExecutionTrace that arrives after the current state
\* changed since the request is ignored: the cached trace and the labels and
\* colours of the steps stay as they are.
StaleTraceAnswerIsIgnored ==
    [][ (last'.op = "trace" /\ Head(pending).state # currentState) =>
          /\ executionTrace' = executionTrace
          /\ decorationOptions' = decorationOptions ]_vars

\* the state a trace was retrieved for: the last step of the path
RetrievedFor(trace) == trace.elements[Len(trace.elements)].state

\* C34: the cached trace is invalidated by every new selection of a current
\* state: when markStateSelection re-applies the cached trace (simple mode,
\* the heap graph was shown, no new trace was requested), that trace was
\* retrieved for the present current state.
CachedTraceIsOfCurrentState ==
    [][ (/\ last'.op = "heap"
         /\ simpleMode
         /\ showStates
         /\ executionTrace.defined
         /\ currentState' >= 0
         /\ currentState' < Len(decorationOptions')
         /\ EmittedOfKind(out', "showHeapGraph") # <<>>
         /\ EmittedOfKind(out', "GetExecutionTrace") = <<>>)
            => RetrievedFor(executionTrace) = currentState' ]_vars

\* the step ran markStateSelection to its end: an answer to ShowHeap whose
\* heap graph was shown, with the cursor on a step
MarkedSelection ==
    /\ last'.op = "heap"
    /\ showStates
    /\ currentState' >= 0
    /\ currentState' < Len(decorationOptions')
    /\ EmittedOfKind(out', "showHeapGraph") # <<>>

\* the current state of the next state is an error state
CurrentIsErrorState == decorationOptions'[currentState' + 1].isErrorState

\* C35 as stated: markStateSelection sends no GetExecutionTrace request
\* exactly when the display is in simple mode and the current state is not an
\* error state; in every other case it sends exactly one, for the current
\* state.
TraceRequestSkippedInSimpleMode ==
    [][ MarkedSelection =>
          IF simpleMode /\ ~CurrentIsErrorState
          THEN EmittedOfKind(out', "GetExecutionTrace") = <<>>
          ELSE EmittedOfKind(out', "GetExecutionTrace")
                   = << Ev("GetExecutionTrace", "", currentState') >> ]_vars

\* C35, amended: markStateSelection sends no GetExecutionTrace request and
\* reuses the cached trace exactly when a trace is cached, the display is in
\* simple mode and the current state is not an error state; in every other
\* case (no trace cached yet, advanced mode, or an error current state) it
\* sends exactly one request, for the current state.
TraceRequestSkippedWhenCached ==
    [][ MarkedSelection =>
          IF executionTrace.defined /\ simpleMode /\ ~CurrentIsErrorState
          THEN EmittedOfKind(out', "GetExecutionTrace") = <<>>
          ELSE EmittedOfKind(out', "GetExecutionTrace")
                   = << Ev("GetExecutionTrace", "", currentState') >> ]_vars

\* the case of C35: in simple mode, with a trace cached, state 0 (no error
\* state) was shown and no trace was requested
CachedTraceReused ==
    /\ simpleMode
    /\ last = [op |-> "heap", gen |-> 0]
    /\ currentState = 0
    /\ executionTrace.defined
    /\ ~decorationOptions[1].isErrorState
    /\ EmittedOfKind(out, "showHeapGraph") # <<>>
    /\ EmittedOfKind(out, "GetExecutionTrace") = <<>>

\* C37: every entry of a trace that markExecutionTrace processes names a
\* step of the present step sequence: when the answer to GetExecutionTrace
\* is applied, each entry that is neither the current nor the previous state
\* lies within decorationOptions.
TraceEntriesAreWithinTheSteps ==
    [][ last'.op = "trace" =>
          \A i \in DOMAIN executionTrace'.elements :
              LET element == executionTrace'.elements[i]
              IN  \/ element.state \in {currentState, previousState}
                  \/ element.state < Len(decorationOptions) ]_vars

(***************************************************************************)
(* The edits of the document.                                              *)
(***************************************************************************)
\* the edits in flight that add or remove special characters
SpecialCharEdits ==
    { i \in DOMAIN edits : edits[i].kind \in {"add", "remove", "closed"} }

\* the edits in flight that write the timing information
TimingEdits == { i \in DOMAIN edits : edits[i].kind = "timing" }

\* the step taken is a request to add or to remove special characters
SpecialCharRequest ==
    last'.op \in {"addCharacterToDecorationOptionLocations",
                  "removeSpecialCharacters",
                  "removeSpecialCharsFromClosedDocument"}

\* C31: addingSpecialChars and removingSpecialChars are never both true, at
\* most one edit of the special characters is in flight, and a request to
\* add or to remove special characters that arrives while either flag is
\* set starts no edit: the edits in flight and the flags stay as they are
\* and neither applyEdit nor readFile is called.
SpecialCharEditsAreExclusive ==
    /\ [](/\ ~(addingSpecialChars /\ removingSpecialChars)
          /\ Cardinality(SpecialCharEdits) <= 1)
    /\ [][ (SpecialCharRequest
              /\ (addingSpecialChars \/ removingSpecialChars))
             => /\ edits' = edits
                /\ addingSpecialChars' = addingSpecialChars
                /\ removingSpecialChars' = removingSpecialChars
                /\ specialChars' = specialChars
                /\ \A e \in DOMAIN out' :
                       out'[e].kind \notin {"applyEdit", "readFile"} ]_vars

\* C31 (witness): a request to add special characters has just been turned
\* down while the removal it met is still in flight
AddRejectedDuringRemoval ==
    /\ last.op = "addCharacterToDecorationOptionLocations"
    /\ removingSpecialChars
    /\ Len(decorationOptions) > 0 /\ showStates /\ editor
    /\ \E i \in DOMAIN edits : edits[i].kind = "remove"
    /\ \E e \in DOMAIN out : out[e].name = "Don't add special chars"

\* C38: a flag of the special characters that is set belongs to an edit
\* that is still in flight, whose answer will clear it; a flag left set
\* with no edit in flight is never cleared and every later request is
\* turned down.
FlagSetOnlyWhileEditInFlight ==
    /\ addingSpecialChars => \E i \in DOMAIN edits : edits[i].kind = "add"
    /\ removingSpecialChars =>
           \E i \in DOMAIN edits : edits[i].kind \in {"remove", "closed"}

\* C39: when no edit is in flight and no flag is set, no callback of
\* removeSpecialCharacters is left waiting: nothing that is still to happen
\* would call it.
NoCallbackLeftWaiting ==
    (edits = <<>> /\ ~addingSpecialChars /\ ~removingSpecialChars)
        => removeSpecialCharacterCallbacks = <<>>

\* the edits in flight that add special characters to the open document
\* or remove them from it
OpenDocumentEdits ==
    { i \in DOMAIN edits : edits[i].kind \in {"add", "remove"} }

\* C40: an edit of the timing information and an edit that adds or removes
\* special characters are never in flight together on the open document.
OneDocumentEditInFlight ==
    TimingEdits = {} \/ OpenDocumentEdits = {}

====
